---- MODULE Spec2Model ----
(***************************************************************************)
(* pyCodemap: the call-graph builder (pycodemap/graph.py) and the keyword  *)
(* filter of the command line (pycodemap/cli.py), over the ResolvedProject *)
(* data model of pycodemap/resolver.py.                                    *)
(*                                                                         *)
(* Python strings are modelled as sequences of one-character strings, so   *)
(* that splitting on ".", joining and substring tests are computed and not *)
(* assumed: "a.f" is <<"a", ".", "f">>.                                    *)
(***************************************************************************)
EXTENDS Integers, Sequences, FiniteSets, TLC

VARIABLES project, config, graph, graph0, raised, filtered, pc, passes,
          files, file_infos, symbol_table, symbol_index, call_list, cursor,
          adjacency, todo, redundant_set, bfs_skip, bfs_queue, bfs_visited,
          bfs_enqueued, searches

\* The local variables of resolve_project: the files in the order the walk
\* yields them, the files parsed so far, the symbols dictionary (symbol_table), the index
\* built from it, the calls collected so far (call_list) and the position of the second
\* loop.
resolverVars == <<files, file_infos, symbol_table, symbol_index, call_list, cursor>>

\* The local variables of _prune_transitive_edges (adj, the edges still to
\* examine, redundant) and of the _has_alternate_path call in progress
\* (skip_edge, queue, visited), with two records kept for the properties:
\* the nodes appended to the queue in this search, and the number of
\* searches begun.
searchVars == <<adjacency, todo, redundant_set, bfs_skip, bfs_queue, bfs_visited,
                bfs_enqueued, searches>>

vars == <<project, config, graph, graph0, raised, filtered, pc, passes,
          files, file_infos, symbol_table, symbol_index, call_list, cursor,
          adjacency, todo, redundant_set, bfs_skip, bfs_queue, bfs_visited,
          bfs_enqueued, searches>>

\* _prune_transitive_edges is not running step by step.
SearchIdle ==
    /\ adjacency = <<>>
    /\ todo = <<>>
    /\ redundant_set = {}
    /\ bfs_skip = <<>>
    /\ bfs_queue = <<>>
    /\ bfs_visited = {}
    /\ bfs_enqueued = <<>>
    /\ searches = 0

\* resolve_project is not running.
ResolverIdle ==
    /\ files = <<>>
    /\ file_infos = <<>>
    /\ symbol_table = <<>>
    /\ symbol_index = <<>>
    /\ call_list = <<>>
    /\ cursor = 0
    /\ SearchIdle

(***************************************************************************)
(* Bounds of the model.                                                    *)
(***************************************************************************)
MaxNodes == 3
MaxEdges == 4
MaxPasses == 2
MaxCalls == 2
MaxLine == 2
MaxKeywords == 2
MaxStmts == 2

(***************************************************************************)
(* Python values.                                                          *)
(***************************************************************************)
\* Python's None (an optional id, an optional cluster, an absent result).
None == <<"<", "N", "o", "n", "e", ">">>

\* "." in s
HasDot(s) == \E i \in 1..Len(s) : s[i] = "."

\* kw in text (str.__contains__): case-sensitive substring test.
Contains(text, kw) ==
    \E i \in 1..(Len(text) + 1) :
        /\ i + Len(kw) - 1 <= Len(text)
        /\ \A j \in 1..Len(kw) : text[i + j - 1] = kw[j]

\* The elements of a finite set in some order: Python iterates a set in an
\* order the program does not control.
RECURSIVE SetToSeq(_)
SetToSeq(S) ==
    IF S = {} THEN <<>>
    ELSE LET x == CHOOSE y \in S : TRUE IN <<x>> \o SetToSeq(S \ {x})

\* All orders in which the elements of a finite set can be listed.
Orders(S) ==
    {o \in [1..Cardinality(S) -> S] : \A i, j \in DOMAIN o : i # j => o[i] # o[j]}

(***************************************************************************)
(* graph.py: transitive reduction.                                         *)
(***************************************************************************)
\* adj.get(u, ())
AdjGet(adj, u) == IF u \in DOMAIN adj THEN adj[u] ELSE {}

\* The while loop of _has_alternate_path: breadth-first search from the
\* queue's head, never walking skip_edge, answering True on the first
\* neighbour that is the target.
RECURSIVE BfsLoop(_, _, _, _, _)
BfsLoop(adj, queue, visited, target, skip_edge) ==
    IF queue = <<>> THEN FALSE
    ELSE LET u == Head(queue)
             ws == {w \in AdjGet(adj, u) : <<u, w>> # skip_edge}
             fresh == {w \in ws : w \notin visited}
         IN IF target \in ws THEN TRUE
            ELSE BfsLoop(adj, Tail(queue) \o SetToSeq(fresh),
                         visited \cup fresh, target, skip_edge)

HasAlternatePath(adj, start, target, skip_edge) ==
    BfsLoop(adj, <<start>>, {start}, target, skip_edge)

\* The adjacency sets built at the top of _prune_transitive_edges: one entry
\* per node, plus one per edge source (setdefault).
BuildAdj(g) ==
    [n \in (DOMAIN g.nodes) \cup {g.edges[k].src : k \in DOMAIN g.edges} |->
        {g.edges[k].dst : k \in {kk \in DOMAIN g.edges : g.edges[kk].src = n}}]

\* A variant that tests each edge against the graph already missing the edges
\* found redundant so far.
RECURSIVE RedundantLoop_Sequential(_, _, _, _)
RedundantLoop_Sequential(g, adj, order, redundant) ==
    IF order = <<>> THEN redundant
    ELSE LET edge == g.edges[Head(order)]
             u == edge.src
             v == edge.dst
             adjNow == [n \in DOMAIN adj |-> {w \in adj[n] : <<n, w>> \notin redundant}]
         IN RedundantLoop_Sequential(g, adj, Tail(order),
                IF HasAlternatePath(adjNow, u, v, <<u, v>>)
                THEN redundant \cup {<<u, v>>} ELSE redundant)

\* The loop "for key, edge in list(graph.edges.items())", over the keys in
\* the dictionary's order: the set of edges found redundant.
RECURSIVE RedundantLoop(_, _, _, _)
RedundantLoop(g, adj, order, redundant) ==
    IF order = <<>> THEN redundant
    ELSE LET edge == g.edges[Head(order)]
             u == edge.src
             v == edge.dst
         IN RedundantLoop(g, adj, Tail(order),
                IF HasAlternatePath(adj, u, v, <<u, v>>)
                THEN redundant \cup {<<u, v>>} ELSE redundant)

\* A variant that keeps the redundant edges and removes the others.
PruneTransitiveEdges_KeepRedundant(g, order) ==
    LET adj == BuildAdj(g)
        redundant == RedundantLoop(g, adj, order, {})
    IN [nodes |-> g.nodes, edges |-> [k \in redundant |-> g.edges[k]]]

\* A variant that makes the kept edges anew, without their calls.
PruneTransitiveEdges_Rebuild(g, order) ==
    LET adj == BuildAdj(g)
        redundant == RedundantLoop(g, adj, order, {})
        keep == (DOMAIN g.edges) \ redundant
    IN [nodes |-> g.nodes, edges |-> [k \in keep |-> [src |-> k[1], dst |-> k[2],
                                                      call_count |-> 0,
                                                      line_numbers |-> <<>>]]]

\* _prune_transitive_edges(graph), the dictionary iterated in `order`: the
\* graph after the in-place removal.
PruneTransitiveEdges(g, order) ==
    LET adj == BuildAdj(g)
        redundant == RedundantLoop(g, adj, order, {})
        keep == (DOMAIN g.edges) \ redundant
    IN [nodes |-> g.nodes, edges |-> [k \in keep |-> g.edges[k]]]

(***************************************************************************)
(* Hand-built graphs, as the tests of _prune_transitive_edges build them.   *)
(***************************************************************************)
Letters == <<"a", "b", "c", "d", "e", "f">>

PruneNodeIds == {<<Letters[i]>> : i \in 1..MaxNodes}

GraphNode(id, label, kind, module, file, symbol_id, cluster) ==
    [id |-> id, label |-> label, kind |-> kind, module |-> module,
     file |-> file, symbol_id |-> symbol_id, cluster |-> cluster]

GraphEdge(src, dst, call_count, line_numbers) ==
    [src |-> src, dst |-> dst, call_count |-> call_count,
     line_numbers |-> line_numbers]

\* The edge sets build_call_graph can produce over these nodes: no self-loop.
PruneEdgeSets ==
    {E \in SUBSET {<<u, v>> \in PruneNodeIds \X PruneNodeIds : u # v} :
        Cardinality(E) <= MaxEdges}

HandGraph(E) ==
    [nodes |-> [n \in PruneNodeIds |-> GraphNode(n, n, "function", None, None, None, None)],
     edges |-> [k \in E |-> GraphEdge(k[1], k[2], 1, <<1>>)]]

NoProject == [symbols |-> <<>>, calls |-> <<>>]
NoConfig == [node_granularity |-> "function", cluster_by_module |-> TRUE,
             prune_transitive |-> TRUE]
NoGraph == [nodes |-> <<>>, edges |-> <<>>]

InitPrune ==
    /\ graph0 \in {HandGraph(E) : E \in PruneEdgeSets}
    /\ graph = graph0
    /\ project = NoProject
    /\ config = NoConfig
    /\ raised = "none"
    /\ filtered = NoProject
    /\ pc = "built"
    /\ passes = 0
    /\ ResolverIdle

\* One call of _prune_transitive_edges on the graph.
Prune ==
    /\ pc = "built"
    /\ passes < MaxPasses
    /\ \E order \in Orders(DOMAIN graph.edges) :
          graph' = PruneTransitiveEdges(graph, order)
    /\ passes' = passes + 1
    /\ UNCHANGED <<project, config, graph0, raised, filtered, pc>>
    /\ UNCHANGED resolverVars
    /\ UNCHANGED searchVars

NextPrune == Prune

SpecPrune == InitPrune /\ [][NextPrune]_vars

(***************************************************************************)
(* graph.py: _prune_transitive_edges and _has_alternate_path step by step, *)
(* one action per iteration of their loops.                                *)
(***************************************************************************)
\* A variant of the for loop over the neighbours that appends every
\* neighbour, visited or not.
RECURSIVE ScanNeighbours_NoVisited(_, _, _)
ScanNeighbours_NoVisited(ws, u, acc) ==
    IF ws = <<>> THEN acc
    ELSE LET w == Head(ws)
         IN IF <<u, w>> = bfs_skip THEN ScanNeighbours_NoVisited(Tail(ws), u, acc)
            ELSE IF w = bfs_skip[2] THEN [acc EXCEPT !.found = TRUE]
            ELSE ScanNeighbours_NoVisited(Tail(ws), u,
                    [acc EXCEPT !.visited = @ \cup {w}, !.queue = Append(@, w),
                                !.enqueued = Append(@, w)])

\* The loop "for w in adj.get(u, ())" of _has_alternate_path over the
\* neighbours in iteration order ws: it stops with found when it meets the
\* target, passes over skip_edge, and appends the neighbours not yet visited.
RECURSIVE ScanNeighbours(_, _, _)
ScanNeighbours(ws, u, acc) ==
    IF ws = <<>> THEN acc
    ELSE LET w == Head(ws)
         IN IF <<u, w>> = bfs_skip THEN ScanNeighbours(Tail(ws), u, acc)
            ELSE IF w = bfs_skip[2] THEN [acc EXCEPT !.found = TRUE]
            ELSE IF w \notin acc.visited
                 THEN ScanNeighbours(Tail(ws), u,
                         [acc EXCEPT !.visited = @ \cup {w}, !.queue = Append(@, w),
                                     !.enqueued = Append(@, w)])
                 ELSE ScanNeighbours(Tail(ws), u, acc)

\* _prune_transitive_edges has built adj and the list of the edges, in the
\* order the edges were inserted in the dictionary.
InitSearch ==
    /\ graph0 \in {HandGraph(E) : E \in PruneEdgeSets}
    /\ graph = graph0
    /\ adjacency = BuildAdj(graph0)
    /\ todo = SetToSeq(DOMAIN graph0.edges)
    /\ redundant_set = {}
    /\ bfs_skip = <<>>
    /\ bfs_queue = <<>>
    /\ bfs_visited = {}
    /\ bfs_enqueued = <<>>
    /\ searches = 0
    /\ pc = "edges"
    /\ project = NoProject
    /\ config = NoConfig
    /\ raised = "none"
    /\ filtered = NoProject
    /\ passes = 0
    /\ files = <<>>
    /\ file_infos = <<>>
    /\ symbol_table = <<>>
    /\ symbol_index = <<>>
    /\ call_list = <<>>
    /\ cursor = 0

\* The next edge (u, v) of the list: _has_alternate_path(adj, u, v, (u, v))
\* starts with u visited and queued.
StartSearch ==
    /\ pc = "edges"
    /\ todo # <<>>
    /\ LET edge == graph.edges[Head(todo)]
       IN /\ bfs_skip' = <<edge.src, edge.dst>>
          /\ bfs_visited' = {edge.src}
          /\ bfs_queue' = <<edge.src>>
          /\ bfs_enqueued' = <<edge.src>>
    /\ todo' = Tail(todo)
    /\ searches' = searches + 1
    /\ pc' = "search"
    /\ UNCHANGED <<adjacency, redundant_set, graph, graph0>>
    /\ UNCHANGED <<project, config, raised, filtered, passes>>
    /\ UNCHANGED resolverVars

\* One iteration of "while queue": u is taken from the left and its
\* neighbours scanned, in the order the set yields them; meeting the target
\* returns True and the edge is added to redundant.
BfsStep ==
    /\ pc = "search"
    /\ bfs_queue # <<>>
    /\ \E ws \in Orders(AdjGet(adjacency, Head(bfs_queue))) :
          LET r == ScanNeighbours(ws, Head(bfs_queue),
                      [found |-> FALSE, visited |-> bfs_visited,
                       queue |-> Tail(bfs_queue), enqueued |-> bfs_enqueued])
          IN /\ bfs_visited' = r.visited
             /\ bfs_queue' = r.queue
             /\ bfs_enqueued' = r.enqueued
             /\ redundant_set' = IF r.found THEN redundant_set \cup {bfs_skip}
                                 ELSE redundant_set
             /\ pc' = IF r.found THEN "edges" ELSE "search"
    /\ UNCHANGED <<adjacency, todo, bfs_skip, searches, graph, graph0>>
    /\ UNCHANGED <<project, config, raised, filtered, passes>>
    /\ UNCHANGED resolverVars

\* The queue is empty: _has_alternate_path returns False.
SearchFails ==
    /\ pc = "search"
    /\ bfs_queue = <<>>
    /\ pc' = "edges"
    /\ UNCHANGED <<adjacency, todo, redundant_set, bfs_skip, bfs_queue, bfs_visited,
                   bfs_enqueued, searches, graph, graph0>>
    /\ UNCHANGED <<project, config, raised, filtered, passes>>
    /\ UNCHANGED resolverVars

\* Every edge has been examined: the redundant ones are popped.
RemoveRedundant ==
    /\ pc = "edges"
    /\ todo = <<>>
    /\ graph' = [graph EXCEPT !.edges =
                    [k \in (DOMAIN graph.edges) \ redundant_set |-> graph.edges[k]]]
    /\ pc' = "pruned"
    /\ UNCHANGED <<adjacency, todo, redundant_set, bfs_skip, bfs_queue, bfs_visited,
                   bfs_enqueued, searches, graph0>>
    /\ UNCHANGED <<project, config, raised, filtered, passes>>
    /\ UNCHANGED resolverVars

NextSearch == StartSearch \/ BfsStep \/ SearchFails \/ RemoveRedundant

\* The interpreter runs the function to its end: a step that can be taken is
\* taken.
SpecSearch == InitSearch /\ [][NextSearch]_vars /\ WF_vars(NextSearch)

(***************************************************************************)
(* resolver.py: the ResolvedProject handed to the graph builder.           *)
(***************************************************************************)
\* ".".join([x, y])
Dot(x, y) == x \o <<".">> \o y

\* s.split(".", 1)[0]
BeforeFirstDot(s) ==
    IF HasDot(s)
    THEN LET i == CHOOSE k \in 1..Len(s) : s[k] = "." /\ \A j \in 1..(k - 1) : s[j] # "."
         IN SubSeq(s, 1, i - 1)
    ELSE s

\* s.rsplit(".", 1)[0] of a dotted s
BeforeLastDot(s) ==
    LET i == CHOOSE k \in 1..Len(s) : s[k] = "." /\ \A j \in (k + 1)..Len(s) : s[j] # "."
    IN SubSeq(s, 1, i - 1)

Symbol(id, kind, name, qualname, module, file) ==
    [id |-> id, kind |-> kind, name |-> name, qualname |-> qualname,
     module |-> module, file |-> file]

Call(caller_id, lineno, callee_id) ==
    [caller_id |-> caller_id, lineno |-> lineno, callee_id |-> callee_id]

\* The module symbol of a file (_make_module_symbol): id, qualname and module
\* are the dotted module name.
ModuleSymbol(module, name, file) == Symbol(module, "module", name, module, module, file)

\* A definition found by the symbol visitor (_add_symbol): id == qualname ==
\* the dotted path of the enclosing scope and the name.
DefSymbol(scope, kind, name, module, file) ==
    Symbol(Dot(scope, name), kind, name, Dot(scope, name), module, file)

ModA == <<"a">>
ModB == <<"p", ".", "b">>
FileA == <<"a", ".", "p", "y">>
FileB == <<"p", "/", "b", ".", "p", "y">>

IdF == Dot(ModA, <<"f">>)
IdC == Dot(ModA, <<"C">>)
IdM == Dot(IdC, <<"m">>)
IdD == Dot(IdC, <<"D">>)
IdN == Dot(IdD, <<"n">>)
IdG == Dot(ModB, <<"F">>)
IdZ == <<"z">>

AttrName == <<"<", "a", "t", "t", "r", "i", "b", "u", "t", "e", "s", ">">>
IdAttr == Dot(IdC, AttrName)

\* The attribute-group symbol of class a.C.
AttrSymbol == DefSymbol(IdC, "attribute", AttrName, ModA, FileA)

\* Two files: a.py with f, class C (method m, typed attributes, nested class
\* D with method n) and p/b.py with function F.
FullSymbols ==
    LET syms == {ModuleSymbol(ModA, <<"a">>, FileA),
                 DefSymbol(ModA, "function", <<"f">>, ModA, FileA),
                 DefSymbol(ModA, "class", <<"C">>, ModA, FileA),
                 DefSymbol(IdC, "method", <<"m">>, ModA, FileA),
                 DefSymbol(IdC, "class", <<"D">>, ModA, FileA),
                 DefSymbol(IdD, "method", <<"n">>, ModA, FileA),
                 AttrSymbol,
                 ModuleSymbol(ModB, <<"b">>, FileB),
                 DefSymbol(ModB, "function", <<"F">>, ModB, FileB)}
    IN [i \in {sy.id : sy \in syms} |-> CHOOSE sy \in syms : sy.id = i]

EmptySymbols == [i \in {} |-> AttrSymbol]

\* The (caller_id, callee_id) pairs of the call sites: calls across files in
\* both directions, from a function and from a method; a call inside one
\* file; a recursive call; an unresolved call; a call to a class; a call from
\* module level; a caller and a callee that are not in the symbol table.
CallPairs ==
    {<<IdF, IdG>>, <<IdM, IdG>>, <<IdG, IdF>>, <<IdM, IdF>>, <<IdF, IdF>>,
     <<IdF, None>>, <<IdF, IdC>>, <<ModA, IdG>>, <<IdZ, IdF>>, <<IdF, IdZ>>}

CallChoices == {Call(cp[1], ln, cp[2]) : cp \in CallPairs, ln \in 1..MaxLine}

CallSeqs == UNION {[1..n -> CallChoices] : n \in 0..MaxCalls}

\* The symbols of a.py (def f), p.py (def b) and p/b.py (def F) as
\* resolve_project returns them: p.py's function b has the id p.b, so p/b.py
\* gets no module symbol.
ShadowedSymbols ==
    LET syms == {ModuleSymbol(ModA, <<"a">>, FileA),
                 DefSymbol(ModA, "function", <<"f">>, ModA, FileA),
                 ModuleSymbol(<<"p">>, <<"p">>, <<"p", ".", "p", "y">>),
                 DefSymbol(<<"p">>, "function", <<"b">>, <<"p">>, <<"p", ".", "p", "y">>),
                 DefSymbol(ModB, "function", <<"F">>, ModB, FileB)}
    IN [i \in {sy.id : sy \in syms} |-> CHOOSE sy \in syms : sy.id = i]

Projects ==
    {[symbols |-> FullSymbols, calls |-> cs] : cs \in CallSeqs}
        \cup {[symbols |-> EmptySymbols, calls |-> <<>>]}
        \cup {[symbols |-> ShadowedSymbols,
               calls |-> <<Call(IdF, 1, IdG), Call(IdG, 2, IdF)>>]}

Configs ==
    [node_granularity : {"function", "file", "weird"},
     cluster_by_module : BOOLEAN, prune_transitive : BOOLEAN]

(***************************************************************************)
(* graph.py: build_call_graph.                                             *)
(***************************************************************************)
\* None where a Symbol is expected (Optional[Symbol]).
NoSymbol == Symbol(None, "none", None, None, None, None)

\* project.symbols.get(id)
SymGet(symbols, id) == IF id \in DOMAIN symbols THEN symbols[id] ELSE NoSymbol

\* The cluster of a file-level node: the top-level package of the module.
FileCluster(module, cfg) ==
    IF cfg.cluster_by_module
    THEN (IF HasDot(module) THEN BeforeFirstDot(module) ELSE module)
    ELSE None

\* The node of a function or method symbol in step 1.
FunctionNode(sym, cfg) ==
    [id |-> sym.id, label |-> sym.name, kind |-> "function", module |-> sym.module,
     file |-> sym.file, symbol_id |-> sym.id,
     cluster |-> IF cfg.cluster_by_module THEN sym.module ELSE None]

\* The node of a module symbol in step 1.
FileNode(sym, cfg) ==
    [id |-> sym.id, label |-> sym.module, kind |-> "file", module |-> sym.module,
     file |-> sym.file, symbol_id |-> sym.id,
     cluster |-> FileCluster(sym.module, cfg)]

\* Step 1 of build_call_graph for a supported granularity: the initial nodes.
InitialNodes(symbols, cfg) ==
    LET picked == IF cfg.node_granularity = "function"
                  THEN {k \in DOMAIN symbols : symbols[k].kind \in {"function", "method"}}
                  ELSE {k \in DOMAIN symbols : symbols[k].kind = "module"}
        ids == {symbols[k].id : k \in picked}
    IN [i \in ids |->
          LET sym == symbols[CHOOSE k \in picked : symbols[k].id = i]
          IN IF cfg.node_granularity = "function"
             THEN FunctionNode(sym, cfg) ELSE FileNode(sym, cfg)]

\* A variant that maps every symbol to its own id under function granularity.
SymbolToNodeId_AnyKind(sym, cfg) ==
    IF sym = NoSymbol THEN None
    ELSE IF cfg.node_granularity = "function" THEN sym.id
         ELSE (IF sym.kind = "module" THEN sym.id ELSE sym.module)

\* A variant that maps every symbol to its own id under file granularity.
SymbolToNodeId_FileById(sym, cfg) ==
    IF sym = NoSymbol THEN None
    ELSE IF cfg.node_granularity = "function"
         THEN (IF sym.kind \in {"function", "method"} THEN sym.id ELSE None)
         ELSE sym.id

\* _symbol_to_node_id
SymbolToNodeId(sym, cfg) ==
    IF sym = NoSymbol THEN None
    ELSE IF cfg.node_granularity = "function"
         THEN (IF sym.kind \in {"function", "method"} THEN sym.id ELSE None)
         ELSE (IF sym.kind = "module" THEN sym.id ELSE sym.module)

\* _make_node_for_symbol
MakeNodeForSymbol(sym, cfg) ==
    IF cfg.node_granularity = "function"
    THEN FunctionNode(sym, cfg)
    ELSE LET module == IF sym.kind # "module" THEN sym.module ELSE sym.id
         IN [id |-> module, label |-> module, kind |-> "file", module |-> module,
             file |-> sym.file, symbol_id |-> sym.id,
             cluster |-> FileCluster(module, cfg)]

\* m with key k bound to v (dict assignment).
Put(m, k, v) == [x \in (DOMAIN m) \cup {k} |-> IF x = k THEN v ELSE m[x]]

\* A variant that puts the new line first.
AddCall_Prepend(edge, lineno) ==
    [edge EXCEPT !.call_count = @ + 1, !.line_numbers = <<lineno>> \o @]

\* GraphEdge.add_call
AddCall(edge, lineno) ==
    [edge EXCEPT !.call_count = @ + 1, !.line_numbers = Append(@, lineno)]

\* A variant that drops a call as a self-loop by comparing the symbol ids of
\* the call, before they are mapped to node ids.
EdgeStep_LoopBeforeMapping(symbols, cfg, st, call) ==
    LET caller_sym == SymGet(symbols, call.caller_id)
        callee_sym == IF call.callee_id # None /\ call.callee_id # <<>>
                      THEN SymGet(symbols, call.callee_id) ELSE NoSymbol
        caller_node_id == SymbolToNodeId(caller_sym, cfg)
        callee_node_id == SymbolToNodeId(callee_sym, cfg)
        nodes1 == IF caller_node_id \notin DOMAIN st.nodes /\ caller_sym # NoSymbol
                  THEN Put(st.nodes, caller_node_id, MakeNodeForSymbol(caller_sym, cfg))
                  ELSE st.nodes
        nodes2 == IF callee_node_id \notin DOMAIN nodes1 /\ callee_sym # NoSymbol
                  THEN Put(nodes1, callee_node_id, MakeNodeForSymbol(callee_sym, cfg))
                  ELSE nodes1
        key == <<caller_node_id, callee_node_id>>
        fresh == key \notin DOMAIN st.edges
        edge == IF fresh THEN GraphEdge(caller_node_id, callee_node_id, 0, <<>>)
                ELSE st.edges[key]
    IN IF caller_node_id = None \/ callee_node_id = None THEN st
       ELSE IF call.caller_id = call.callee_id THEN st
       ELSE [nodes |-> nodes2,
             edges |-> Put(st.edges, key, AddCall(edge, call.lineno)),
             order |-> IF fresh THEN Append(st.order, key) ELSE st.order]

\* A variant without the fallback that makes the nodes missing from the
\* initial set.
EdgeStep_NoFallback(symbols, cfg, st, call) ==
    LET caller_sym == SymGet(symbols, call.caller_id)
        callee_sym == IF call.callee_id # None /\ call.callee_id # <<>>
                      THEN SymGet(symbols, call.callee_id) ELSE NoSymbol
        caller_node_id == SymbolToNodeId(caller_sym, cfg)
        callee_node_id == SymbolToNodeId(callee_sym, cfg)
        key == <<caller_node_id, callee_node_id>>
        fresh == key \notin DOMAIN st.edges
        edge == IF fresh THEN GraphEdge(caller_node_id, callee_node_id, 0, <<>>)
                ELSE st.edges[key]
    IN IF caller_node_id = None \/ callee_node_id = None THEN st
       ELSE IF caller_node_id = callee_node_id THEN st
       ELSE [nodes |-> st.nodes,
             edges |-> Put(st.edges, key, AddCall(edge, call.lineno)),
             order |-> IF fresh THEN Append(st.order, key) ELSE st.order]

\* One iteration of the loop over project.calls; st holds the nodes and edges
\* dictionaries and the insertion order of the edge keys.
EdgeStep(symbols, cfg, st, call) ==
    LET caller_sym == SymGet(symbols, call.caller_id)
        callee_sym == IF call.callee_id # None /\ call.callee_id # <<>>
                      THEN SymGet(symbols, call.callee_id) ELSE NoSymbol
        caller_node_id == SymbolToNodeId(caller_sym, cfg)
        callee_node_id == SymbolToNodeId(callee_sym, cfg)
        nodes1 == IF caller_node_id \notin DOMAIN st.nodes /\ caller_sym # NoSymbol
                  THEN Put(st.nodes, caller_node_id, MakeNodeForSymbol(caller_sym, cfg))
                  ELSE st.nodes
        nodes2 == IF callee_node_id \notin DOMAIN nodes1 /\ callee_sym # NoSymbol
                  THEN Put(nodes1, callee_node_id, MakeNodeForSymbol(callee_sym, cfg))
                  ELSE nodes1
        key == <<caller_node_id, callee_node_id>>
        fresh == key \notin DOMAIN st.edges
        edge == IF fresh THEN GraphEdge(caller_node_id, callee_node_id, 0, <<>>)
                ELSE st.edges[key]
    IN IF caller_node_id = None \/ callee_node_id = None THEN st
       ELSE IF caller_node_id = callee_node_id THEN st
       ELSE [nodes |-> nodes2,
             edges |-> Put(st.edges, key, AddCall(edge, call.lineno)),
             order |-> IF fresh THEN Append(st.order, key) ELSE st.order]

\* Step 2 of build_call_graph: the loop over project.calls from index i.
RECURSIVE EdgeLoop(_, _, _, _, _)
EdgeLoop(symbols, cfg, st, calls, i) ==
    IF i > Len(calls) THEN st
    ELSE EdgeLoop(symbols, cfg, EdgeStep(symbols, cfg, st, calls[i]), calls, i + 1)

\* Steps 1 and 2: the graph before the optional reduction.
Unpruned(proj, cfg) ==
    EdgeLoop(proj.symbols, cfg,
             [nodes |-> InitialNodes(proj.symbols, cfg), edges |-> <<>>, order |-> <<>>],
             proj.calls, 1)

\* A variant that treats an unsupported granularity as "file" instead of
\* raising.
BuildCallGraph_NoRaise(proj, cfg) ==
    LET st == Unpruned(proj, cfg)
        g == [nodes |-> st.nodes, edges |-> st.edges]
    IN [raised |-> "none",
        graph |-> IF cfg.prune_transitive
                  THEN PruneTransitiveEdges(g, st.order) ELSE g,
        before |-> g]

\* build_call_graph(project, config): the exception raised if any, and the
\* nodes and edges dictionaries at the point of return or raise.
BuildCallGraph(proj, cfg) ==
    IF cfg.node_granularity \notin {"function", "file"}
    THEN [raised |-> "ValueError", graph |-> NoGraph, before |-> NoGraph]
    ELSE LET st == Unpruned(proj, cfg)
             g == [nodes |-> st.nodes, edges |-> st.edges]
         IN [raised |-> "none",
             graph |-> IF cfg.prune_transitive
                       THEN PruneTransitiveEdges(g, st.order) ELSE g,
             before |-> g]

Init ==
    /\ project \in Projects
    /\ config = NoConfig
    /\ graph = NoGraph
    /\ graph0 = NoGraph
    /\ raised = "none"
    /\ filtered = NoProject
    /\ pc = "start"
    /\ passes = 0
    /\ ResolverIdle

\* A call build_call_graph(project, cfg).
Build ==
    /\ pc = "start"
    /\ \E cfg \in Configs :
          LET r == BuildCallGraph(project, cfg)
          IN /\ config' = cfg
             /\ raised' = r.raised
             /\ graph' = r.graph
             /\ graph0' = r.before
             /\ pc' = IF r.raised = "none" THEN "built" ELSE "error"
    /\ UNCHANGED <<project, filtered, passes>>
    /\ UNCHANGED resolverVars
    /\ UNCHANGED searchVars

Next == Build

Spec == Init /\ [][Next]_vars

(***************************************************************************)
(* cli.py: _filter_project, and the keyword filter of build_call_graph it  *)
(* relies on.                                                              *)
(***************************************************************************)
KeywordChoices == {<<"f">>, <<"F">>, <<"C">>}

\* The non-empty keyword lists of up to MaxKeywords distinct keywords: a node
\* is kept when any keyword matches, so one order of each set is enough.
KeywordLists ==
    {SetToSeq(S) : S \in {T \in SUBSET KeywordChoices :
                              Cardinality(T) \in 1..MaxKeywords}}

FilterCallerIds == {IdF, IdM, IdG, ModA}
FilterCalleeIds == {None, IdF, IdM, IdG}

FilterProjects ==
    {[symbols |-> FullSymbols, calls |-> cs] :
        cs \in UNION {[1..n -> {Call(cr, 1, ce) : cr \in FilterCallerIds,
                                                  ce \in FilterCalleeIds}] :
                         n \in 0..MaxCalls}}

\* The identifying text of a node contains one of the keywords: name or
\* qualified name for a function node, module for a file node.
NodeMatches(node, symbols, keywords) ==
    \E i \in DOMAIN keywords :
        IF node.kind = "file" THEN Contains(node.module, keywords[i])
        ELSE \/ Contains(node.label, keywords[i])
             \/ Contains(symbols[node.symbol_id].qualname, keywords[i])

\* The nodes reached from the kept ones along outgoing edges, to a fixed point.
RECURSIVE OutClosure(_, _)
OutClosure(edgeKeys, kept) ==
    LET more == {k[2] : k \in {kk \in edgeKeys : kk[1] \in kept}} \ kept
    IN IF more = {} THEN kept ELSE OutClosure(edgeKeys, kept \cup more)

\* build_call_graph with filter_keywords and link_by_filter: the graph of the
\* kept nodes and of the edges between them.
FilteredBuild(proj, cfg) ==
    LET st == Unpruned(proj, cfg)
        matched == {n \in DOMAIN st.nodes :
                       NodeMatches(st.nodes[n], proj.symbols, cfg.filter_keywords)}
        kept == IF cfg.link_by_filter THEN OutClosure(DOMAIN st.edges, matched)
                ELSE matched
    IN IF cfg.filter_keywords = <<>>
       THEN [nodes |-> st.nodes, edges |-> st.edges]
       ELSE [nodes |-> [n \in kept |-> st.nodes[n]],
             edges |-> [k \in {kk \in DOMAIN st.edges : kk[1] \in kept /\ kk[2] \in kept}
                           |-> st.edges[k]]]

\* The GraphConfig _filter_project builds.
FilterConfig(filter_keywords, link_by_filter) ==
    [node_granularity |-> "function", cluster_by_module |-> TRUE,
     prune_transitive |-> FALSE, filter_keywords |-> filter_keywords,
     link_by_filter |-> link_by_filter]

\* A variant that keeps every call of a kept caller.
FilterWithGraph_AnyCallee(proj, g) ==
    LET kept_symbol_ids == {g.nodes[n].symbol_id : n \in DOMAIN g.nodes}
        kept_modules == {proj.symbols[i].module :
                            i \in kept_symbol_ids \cap DOMAIN proj.symbols}
        keep == {i \in DOMAIN proj.symbols :
                    \/ i \in kept_symbol_ids
                    \/ (proj.symbols[i].kind = "module"
                          /\ proj.symbols[i].id \in kept_modules)}
        CallKept(c) == c.caller_id \in kept_symbol_ids
    IN [symbols |-> [i \in keep |-> proj.symbols[i]],
        calls |-> SelectSeq(proj.calls, CallKept)]

\* A variant that keeps every symbol of a module that has a kept symbol.
FilterWithGraph_WholeModule(proj, g) ==
    LET kept_symbol_ids == {g.nodes[n].symbol_id :
                               n \in {nn \in DOMAIN g.nodes : g.nodes[nn].symbol_id # None
                                          /\ g.nodes[nn].symbol_id # <<>>}}
        kept_modules == {proj.symbols[i].module :
                            i \in kept_symbol_ids \cap DOMAIN proj.symbols}
        keep == {i \in DOMAIN proj.symbols :
                    \/ i \in kept_symbol_ids
                    \/ proj.symbols[i].module \in kept_modules}
        CallKept(c) == /\ c.caller_id \in kept_symbol_ids
                       /\ (c.callee_id = None \/ c.callee_id \in kept_symbol_ids)
    IN [symbols |-> [i \in keep |-> proj.symbols[i]],
        calls |-> SelectSeq(proj.calls, CallKept)]

\* The second half of _filter_project, from the filtered graph g: the new
\* ResolvedProject.
FilterWithGraph(proj, g) ==
    LET kept_symbol_ids == {g.nodes[n].symbol_id :
                               n \in {nn \in DOMAIN g.nodes : g.nodes[nn].symbol_id # None
                                          /\ g.nodes[nn].symbol_id # <<>>}}
        kept_modules == {proj.symbols[i].module :
                            i \in kept_symbol_ids \cap DOMAIN proj.symbols}
        keep == {i \in DOMAIN proj.symbols :
                    \/ i \in kept_symbol_ids
                    \/ (proj.symbols[i].kind = "module"
                          /\ proj.symbols[i].id \in kept_modules)}
        CallKept(c) == /\ c.caller_id \in kept_symbol_ids
                       /\ (c.callee_id = None \/ c.callee_id \in kept_symbol_ids)
    IN [symbols |-> [i \in keep |-> proj.symbols[i]],
        calls |-> SelectSeq(proj.calls, CallKept)]

\* _filter_project(project, filter_keywords, link_by_filter)
FilterProject(proj, filter_keywords, link_by_filter) ==
    FilterWithGraph(proj, FilteredBuild(proj, FilterConfig(filter_keywords, link_by_filter)))

InitFilter ==
    /\ project \in FilterProjects
    /\ config = NoConfig
    /\ graph = NoGraph
    /\ graph0 = NoGraph
    /\ raised = "none"
    /\ filtered = NoProject
    /\ pc = "start"
    /\ passes = 0
    /\ ResolverIdle

\* A variant that narrows the project it is given instead of building a new
\* one.
Filter_InPlace ==
    /\ pc = "start"
    /\ \E kws \in KeywordLists, link \in BOOLEAN :
          /\ config' = FilterConfig(kws, link)
          /\ graph' = FilteredBuild(project, FilterConfig(kws, link))
          /\ filtered' = FilterProject(project, kws, link)
          /\ project' = FilterProject(project, kws, link)
    /\ pc' = "filtered"
    /\ UNCHANGED <<graph0, raised, passes>>
    /\ UNCHANGED resolverVars
    /\ UNCHANGED searchVars

\* A call _filter_project(project, kws, link) with a non-empty keyword list,
\* as main makes it.
Filter ==
    /\ pc = "start"
    /\ \E kws \in KeywordLists, link \in BOOLEAN :
          /\ config' = FilterConfig(kws, link)
          /\ graph' = FilteredBuild(project, FilterConfig(kws, link))
          /\ filtered' = FilterProject(project, kws, link)
    /\ pc' = "filtered"
    /\ UNCHANGED <<project, graph0, raised, passes>>
    /\ UNCHANGED resolverVars
    /\ UNCHANGED searchVars

\* A call build_call_graph(project, cfg) with no keyword, as main makes it for
\* the graph formats when --filter is absent, with --link-by-filter on or off.
BuildUnfiltered ==
    /\ pc = "start"
    /\ \E link \in BOOLEAN :
          /\ config' = FilterConfig(<<>>, link)
          /\ graph' = FilteredBuild(project, FilterConfig(<<>>, link))
    /\ pc' = "unfiltered"
    /\ UNCHANGED <<project, graph0, raised, filtered, passes>>
    /\ UNCHANGED resolverVars
    /\ UNCHANGED searchVars

NextFilter == Filter \/ BuildUnfiltered

SpecFilter == InitFilter /\ [][NextFilter]_vars

\* The consumers of a ResolvedProject: the graph builder with any
\* configuration, pruning included, and the keyword filter.
NextConsumers == Build \/ Filter \/ BuildUnfiltered

SpecConsumers == InitFilter /\ [][NextConsumers]_vars

(***************************************************************************)
(* resolver.py: the syntax trees resolve_project walks.  A statement is a  *)
(* record of one shape; the fields a node type does not have are empty.    *)
(* pre holds the calls of a class's base expressions, post the calls of a  *)
(* definition's decorators: generic_visit reaches them before and after    *)
(* the body, in the order of the node's fields.                            *)
(***************************************************************************)
\* The func of an ast.Call: `attrs` applied, innermost first, to a root that
\* is a name (ast.Name id), a subscript (id[0]), a call (id()) or a lambda.
Expr(root, id, attrs) == [root |-> root, id |-> id, attrs |-> attrs]

NoExpr == Expr("None", <<>>, <<>>)

Stmt(t, name, module, asname, func, lineno, pre, body, post) ==
    [t |-> t, name |-> name, module |-> module, asname |-> asname, func |-> func,
     lineno |-> lineno, pre |-> pre, body |-> body, post |-> post]

FunctionDef(name, body, decorator_list) ==
    Stmt("FunctionDef", name, <<>>, <<>>, NoExpr, 0, <<>>, body, decorator_list)

AsyncFunctionDef(name, body, decorator_list) ==
    Stmt("AsyncFunctionDef", name, <<>>, <<>>, NoExpr, 0, <<>>, body, decorator_list)

ClassDef(name, bases, body, decorator_list) ==
    Stmt("ClassDef", name, <<>>, <<>>, NoExpr, 0, bases, body, decorator_list)

\* import name [as asname]; asname is <<>> when absent.
Import(name, asname) ==
    Stmt("Import", name, <<>>, asname, NoExpr, 0, <<>>, <<>>, <<>>)

\* from module import name [as asname]; module is <<>> for "from . import".
ImportFrom(module, name, asname) ==
    Stmt("ImportFrom", name, module, asname, NoExpr, 0, <<>>, <<>>, <<>>)

\* A statement or expression that is the call func(...), on line lineno.
CallStmt(func, lineno) ==
    Stmt("Call", <<>>, <<>>, <<>>, func, lineno, <<>>, <<>>, <<>>)

\* `pass`, or any statement without a definition, an import or a call.
Pass == Stmt("Pass", <<>>, <<>>, <<>>, NoExpr, 0, <<>>, <<>>, <<>>)

\* A file the walk yields: its path relative to the root, whether ast.parse
\* accepts its text, and the body of its tree.
SourceFile(rel, parses, body) == [rel |-> rel, parses |-> parses, body |-> body]

(***************************************************************************)
(* resolver.py: strings and dictionaries.                                  *)
(***************************************************************************)
\* s.rsplit(".", 1)[1] of a dotted s; s.split(".")[-1]
AfterLastDot(s) ==
    IF HasDot(s)
    THEN LET i == CHOOSE k \in 1..Len(s) : s[k] = "." /\ \A j \in (k + 1)..Len(s) : s[j] # "."
         IN SubSeq(s, i + 1, Len(s))
    ELSE s

\* ".".join(parts) of a non-empty list
RECURSIVE Join(_)
Join(parts) ==
    IF Len(parts) = 1 THEN parts[1]
    ELSE Dot(parts[1], Join(Tail(parts)))

\* The sentinel raw_callee of a call whose target has no dotted form.
Unknown == <<"<", "u", "n", "k", "n", "o", "w", "n", ">">>

\* _module_name_from_path: the suffix removed, the parts joined by dots.
ModuleNameFromPath(rel) ==
    LET stem == IF Len(rel) > 3 /\ SubSeq(rel, Len(rel) - 2, Len(rel)) = <<".", "p", "y">>
                THEN SubSeq(rel, 1, Len(rel) - 3) ELSE rel
    IN [i \in 1..Len(stem) |-> IF stem[i] = "/" THEN "." ELSE stem[i]]

\* A Python dict in insertion order: a sequence of key/value entries with
\* distinct keys.
DictKeys(d) == {d[i].key : i \in DOMAIN d}

DictHas(d, k) == \E i \in DOMAIN d : d[i].key = k

DictGet(d, k) == d[CHOOSE i \in DOMAIN d : d[i].key = k].value

\* d[k] = v: a new key goes last, an old key keeps its place.
DictSet(d, k, v) ==
    IF DictHas(d, k)
    THEN [i \in DOMAIN d |-> IF d[i].key = k THEN [key |-> k, value |-> v] ELSE d[i]]
    ELSE Append(d, [key |-> k, value |-> v])

\* list(d.values())
DictValues(d) == [i \in DOMAIN d |-> d[i].value]

\* The dictionary as the map the graph builder reads.
DictToMap(d) == [k \in DictKeys(d) |-> DictGet(d, k)]

(***************************************************************************)
(* resolver.py: symbol discovery (first pass).                             *)
(***************************************************************************)
\* _make_module_symbol
MakeModuleSymbol(module, rel_path) ==
    ModuleSymbol(module, AfterLastDot(module), rel_path)

\* A variant that names a definition by its innermost enclosing one only.
CurrentQualname_Innermost(module, qualname_stack, name) ==
    IF qualname_stack = <<>> THEN Dot(module, name)
    ELSE Join(<<module, qualname_stack[Len(qualname_stack)], name>>)

\* _SymbolVisitor._current_qualname
CurrentQualname(module, qualname_stack, name) ==
    Join(<<module>> \o qualname_stack \o <<name>>)

\* _SymbolVisitor._add_symbol
AddSymbol(module, rel_path, qualname_stack, kind, name) ==
    LET qualname == CurrentQualname(module, qualname_stack, name)
    IN Symbol(qualname, kind, name, qualname, module, rel_path)

\* _SymbolVisitor over a list of statements: the symbols in visiting order.
\* A definition is a "function" on an empty stack and a "method" otherwise;
\* its body is visited with its name pushed.
RECURSIVE SymbolVisit(_, _, _, _)
SymbolVisit(stmts, module, rel_path, qualname_stack) ==
    IF stmts = <<>> THEN <<>>
    ELSE LET s == Head(stmts)
             here ==
               IF s.t \in {"FunctionDef", "AsyncFunctionDef"}
               THEN <<AddSymbol(module, rel_path, qualname_stack,
                        IF qualname_stack = <<>> THEN "function" ELSE "method", s.name)>>
                    \o SymbolVisit(s.body, module, rel_path, Append(qualname_stack, s.name))
               ELSE IF s.t = "ClassDef"
               THEN <<AddSymbol(module, rel_path, qualname_stack, "class", s.name)>>
                    \o SymbolVisit(s.body, module, rel_path, Append(qualname_stack, s.name))
               ELSE <<>>
         IN here \o SymbolVisit(Tail(stmts), module, rel_path, qualname_stack)

\* _iter_symbols_from_ast
IterSymbolsFromAst(tree, module, rel_path) == SymbolVisit(tree, module, rel_path, <<>>)

\* symbols[sym.id] = sym for each sym of the list, in order.
RECURSIVE StoreSymbols(_, _)
StoreSymbols(d, syms) ==
    IF syms = <<>> THEN d
    ELSE StoreSymbols(DictSet(d, Head(syms).id, Head(syms)), Tail(syms))

\* symbols[sym.name] = sym for each sym of the list, in order.
RECURSIVE StoreSymbolsByName(_, _)
StoreSymbolsByName(d, syms) ==
    IF syms = <<>> THEN d
    ELSE StoreSymbolsByName(DictSet(d, Head(syms).name, Head(syms)), Tail(syms))

\* A variant that stores each definition under its short name.
FirstPassFile_KeyByName(d, f) ==
    LET module == ModuleNameFromPath(f.rel)
        module_sym == MakeModuleSymbol(module, f.rel)
        d1 == IF ~DictHas(d, module_sym.id) THEN DictSet(d, module_sym.id, module_sym) ELSE d
    IN StoreSymbolsByName(d1, IterSymbolsFromAst(f.body, module, f.rel))

\* One iteration of the first loop of resolve_project on a file that parses:
\* the module symbol unless its id is taken, then every symbol of the tree.
FirstPassFile(d, f) ==
    LET module == ModuleNameFromPath(f.rel)
        module_sym == MakeModuleSymbol(module, f.rel)
        d1 == IF ~DictHas(d, module_sym.id) THEN DictSet(d, module_sym.id, module_sym) ELSE d
    IN StoreSymbols(d1, IterSymbolsFromAst(f.body, module, f.rel))

\* _build_symbol_index: (module, name) -> the function, method and class
\* symbols with that module and name, in the order of symbols.values().
BuildSymbolIndex(d) ==
    LET vals == DictValues(d)
        Indexed(v) == v.kind \in {"function", "method", "class"}
        keys == {<<vals[i].module, vals[i].name>> : i \in {j \in DOMAIN vals : Indexed(vals[j])}}
    IN [k \in keys |->
          SelectSeq(vals, LAMBDA v : Indexed(v) /\ <<v.module, v.name>> = k)]

(***************************************************************************)
(* resolver.py: call discovery and resolution (second pass).               *)
(***************************************************************************)
\* A Call: the caller, the line and file of its location, the raw callee
\* text and the resolved callee id or None.
CallSite(caller_id, file, lineno, raw_callee, callee_id) ==
    [caller_id |-> caller_id, file |-> file, lineno |-> lineno,
     raw_callee |-> raw_callee, callee_id |-> callee_id]

\* A variant that also replaces an attribute name bound in the alias table.
RECURSIVE FormatCalleeExpr_AliasAttrs(_, _)
FormatCalleeExpr_AliasAttrs(expr, import_aliases) ==
    IF expr.attrs # <<>>
    THEN LET n == Len(expr.attrs)
             attr == expr.attrs[n]
             base == FormatCalleeExpr_AliasAttrs([expr EXCEPT !.attrs = SubSeq(@, 1, n - 1)],
                                                 import_aliases)
         IN IF base = None THEN None
            ELSE Dot(base, IF attr \in DOMAIN import_aliases
                           THEN import_aliases[attr] ELSE attr)
    ELSE IF expr.root = "Name"
         THEN (IF expr.id \in DOMAIN import_aliases THEN import_aliases[expr.id]
               ELSE expr.id)
         ELSE None

\* _format_callee_expr: the dotted text of a call target, None when the
\* target is not a name or an attribute chain rooted in a name.
RECURSIVE FormatCalleeExpr(_, _)
FormatCalleeExpr(expr, import_aliases) ==
    IF expr.attrs # <<>>
    THEN LET n == Len(expr.attrs)
             base == FormatCalleeExpr([expr EXCEPT !.attrs = SubSeq(@, 1, n - 1)],
                                      import_aliases)
         IN IF base = None THEN None ELSE Dot(base, expr.attrs[n])
    ELSE IF expr.root = "Name"
         THEN (IF expr.id \in DOMAIN import_aliases THEN import_aliases[expr.id]
               ELSE expr.id)
         ELSE None

\* A variant that takes the first candidate whatever its kind.
PickBestSymbol_First(candidates) == candidates[1]

\* _pick_best_symbol: the first function or method, else the first candidate.
PickBestSymbol(candidates) ==
    LET func_like == SelectSeq(candidates, LAMBDA c : c.kind \in {"function", "method"})
    IN IF func_like # <<>> THEN func_like[1] ELSE candidates[1]

\* symbol_index.get(key), an absent key giving the empty list.
IndexGet(index, key) == IF key \in DOMAIN index THEN index[key] ELSE <<>>

\* The symbols of every index entry whose name is `name`.
GlobalMatches(index, name) ==
    UNION {{index[k][i] : i \in DOMAIN index[k]} : k \in {kk \in DOMAIN index : kk[2] = name}}

\* The number of symbols in the index entries whose name is `name`.
RECURSIVE CountMatches(_, _, _)
CountMatches(index, keys, name) ==
    IF keys = {} THEN 0
    ELSE LET k == CHOOSE x \in keys : TRUE
         IN (IF k[2] = name THEN Len(index[k]) ELSE 0)
              + CountMatches(index, keys \ {k}, name)

\* A variant whose last resort counts the matching keys, not the symbols.
ResolveCalleeId_CountKeys(raw_callee, current_module, index) ==
    IF raw_callee = Unknown THEN None
    ELSE LET dotted == HasDot(raw_callee)
             module == IF dotted THEN BeforeLastDot(raw_callee) ELSE None
             name == IF dotted THEN AfterLastDot(raw_callee) ELSE raw_callee
             direct == IF dotted THEN IndexGet(index, <<module, name>>) ELSE <<>>
             local == IF ~dotted THEN IndexGet(index, <<current_module, name>>) ELSE <<>>
             keys == {k \in DOMAIN index : k[2] = name}
         IN IF direct # <<>> THEN PickBestSymbol(direct).id
            ELSE IF local # <<>> THEN PickBestSymbol(local).id
            ELSE IF Cardinality(keys) = 1
                 THEN index[CHOOSE k \in keys : TRUE][1].id
                 ELSE None

\* A variant that never looks in the current module.
ResolveCalleeId_NoLocal(raw_callee, current_module, index) ==
    IF raw_callee = Unknown THEN None
    ELSE LET dotted == HasDot(raw_callee)
             module == IF dotted THEN BeforeLastDot(raw_callee) ELSE None
             name == IF dotted THEN AfterLastDot(raw_callee) ELSE raw_callee
             direct == IF dotted THEN IndexGet(index, <<module, name>>) ELSE <<>>
         IN IF direct # <<>> THEN PickBestSymbol(direct).id
            ELSE IF CountMatches(index, DOMAIN index, name) = 1
                 THEN (CHOOSE sym \in GlobalMatches(index, name) : TRUE).id
                 ELSE None

\* _resolve_callee_id
ResolveCalleeId(raw_callee, current_module, index) ==
    IF raw_callee = Unknown THEN None
    ELSE LET dotted == HasDot(raw_callee)
             module == IF dotted THEN BeforeLastDot(raw_callee) ELSE None
             name == IF dotted THEN AfterLastDot(raw_callee) ELSE raw_callee
             direct == IF dotted THEN IndexGet(index, <<module, name>>) ELSE <<>>
             local == IF ~dotted THEN IndexGet(index, <<current_module, name>>) ELSE <<>>
         IN IF direct # <<>> THEN PickBestSymbol(direct).id
            ELSE IF local # <<>> THEN PickBestSymbol(local).id
            ELSE IF CountMatches(index, DOMAIN index, name) = 1
                 THEN (CHOOSE sym \in GlobalMatches(index, name) : TRUE).id
                 ELSE None

\* A variant that names the caller by the innermost definition only.
CurrentCallerId_Innermost(module, ctx_stack) ==
    IF ctx_stack # <<>> THEN Dot(module, ctx_stack[Len(ctx_stack)]) ELSE module

\* _CallVisitor._current_caller_id
CurrentCallerId(module, ctx_stack) ==
    IF ctx_stack # <<>> THEN Join(<<module>> \o ctx_stack) ELSE module

\* The binding an import statement adds to the alias table.
ImportLocal(s) ==
    IF s.asname # <<>> THEN s.asname
    ELSE IF s.t = "Import" THEN BeforeFirstDot(s.name) ELSE s.name

\* A variant that binds a from-import to the bare name.
ImportTarget_Bare(s) ==
    IF s.t = "Import"
    THEN (IF s.asname # <<>> THEN s.name ELSE BeforeFirstDot(s.name))
    ELSE s.name

ImportTarget(s) ==
    IF s.t = "Import"
    THEN (IF s.asname # <<>> THEN s.name ELSE BeforeFirstDot(s.name))
    ELSE (IF s.module # <<>> THEN Dot(s.module, s.name) ELSE s.name)

\* A variant that records nothing for a target without a dotted form.
RECURSIVE VisitCall_SkipUnknown(_, _, _)
VisitCall_SkipUnknown(node, st, env) ==
    LET caller_id == CurrentCallerId(env.module, st.ctx_stack)
        formatted == FormatCalleeExpr(node.func, st.import_aliases)
        callee_id == ResolveCalleeId(formatted, env.module, env.symbol_index)
        st1 == IF formatted = None THEN st
               ELSE [st EXCEPT !.calls =
                       Append(@, CallSite(caller_id, env.rel_path, node.lineno,
                                          formatted, callee_id))]
    IN IF node.func.root = "Call"
       THEN VisitCall_SkipUnknown([node EXCEPT !.func = Expr("Name", node.func.id, <<>>)],
                                  st1, env)
       ELSE st1

\* _CallVisitor.visit_Call on the call node, then generic_visit of it: when
\* the target is itself a call, that inner call is visited next.  st holds
\* the visitor's calls, _ctx_stack and _import_aliases; env the module, the
\* path and the symbol index it was made with.
RECURSIVE VisitCall(_, _, _)
VisitCall(node, st, env) ==
    LET caller_id == CurrentCallerId(env.module, st.ctx_stack)
        formatted == FormatCalleeExpr(node.func, st.import_aliases)
        raw == IF formatted = None THEN Unknown ELSE formatted
        callee_id == ResolveCalleeId(raw, env.module, env.symbol_index)
        st1 == [st EXCEPT !.calls =
                   Append(@, CallSite(caller_id, env.rel_path, node.lineno, raw, callee_id))]
    IN IF node.func.root = "Call"
       THEN VisitCall([node EXCEPT !.func = Expr("Name", node.func.id, <<>>)], st1, env)
       ELSE st1

\* A variant whose alias table is scoped: the imports made inside a
\* definition are forgotten when the definition ends.
RECURSIVE VisitStmts_Scoped(_, _, _)
VisitStmts_Scoped(stmts, st, env) ==
    IF stmts = <<>> THEN st
    ELSE LET s == Head(stmts)
             after ==
               IF s.t \in {"Import", "ImportFrom"}
               THEN [st EXCEPT !.import_aliases = Put(@, ImportLocal(s), ImportTarget(s))]
               ELSE IF s.t \in {"FunctionDef", "AsyncFunctionDef", "ClassDef"}
               THEN [VisitStmts_Scoped(s.pre \o s.body \o s.post,
                                       [st EXCEPT !.ctx_stack = Append(@, s.name)], env)
                        EXCEPT !.ctx_stack = st.ctx_stack,
                               !.import_aliases = st.import_aliases]
               ELSE IF s.t = "Call" THEN VisitCall(s, st, env)
               ELSE st
         IN VisitStmts_Scoped(Tail(stmts), after, env)

\* _CallVisitor over a list of statements.
RECURSIVE VisitStmts(_, _, _)
VisitStmts(stmts, st, env) ==
    IF stmts = <<>> THEN st
    ELSE LET s == Head(stmts)
             after ==
               IF s.t \in {"Import", "ImportFrom"}
               THEN [st EXCEPT !.import_aliases = Put(@, ImportLocal(s), ImportTarget(s))]
               ELSE IF s.t \in {"FunctionDef", "AsyncFunctionDef", "ClassDef"}
               THEN [VisitStmts(s.pre \o s.body \o s.post,
                                [st EXCEPT !.ctx_stack = Append(@, s.name)], env)
                        EXCEPT !.ctx_stack = st.ctx_stack]
               ELSE IF s.t = "Call" THEN VisitCall(s, st, env)
               ELSE st
         IN VisitStmts(Tail(stmts), after, env)

\* A fresh _CallVisitor run over the tree of one file: its calls.
CallsOfFile(info, index) ==
    VisitStmts(info.tree,
               [calls |-> <<>>, ctx_stack |-> <<>>, import_aliases |-> <<>>],
               [module |-> info.module, rel_path |-> info.rel, symbol_index |-> index]).calls

(***************************************************************************)
(* The projects resolve_project is run on.  os.walk is top-down: the files *)
(* of the root directory come, in any order, before those of package p.    *)
(***************************************************************************)
InitName == <<"_", "_", "i", "n", "i", "t", "_", "_">>

Name(id) == Expr("Name", id, <<>>)
Attr(id, attr) == Expr("Name", id, <<attr>>)

RelA == <<"a", ".", "p", "y">>
RelC == <<"c", ".", "p", "y">>
RelB == <<"p", "/", "b", ".", "p", "y">>
RelP == <<"p", ".", "p", "y">>
ModC == <<"c">>

\* The statements a.py is made of.
\*   def f(): F()                       from c import F
\*   import p.b as q                    q.F()
\*   F()                                C()
\*   class C:                           class C(F()):
\*       x = F()                            pass
\*       def __init__(self): pass       (decorated with @F())
\*       def m(self): C()
\*   x[0]()                             f()()
\*   x[0].g()                           def f():
\*                                          def h(): F()
StmtPool ==
    {FunctionDef(<<"f">>, <<CallStmt(Name(<<"F">>), 1)>>, <<>>),
     ImportFrom(ModC, <<"F">>, <<>>),
     Import(ModB, <<"q">>),
     CallStmt(Attr(<<"q">>, <<"F">>), 2),
     CallStmt(Name(<<"F">>), 1),
     CallStmt(Name(<<"C">>), 2),
     ClassDef(<<"C">>, <<>>,
              <<CallStmt(Name(<<"F">>), 1),
                FunctionDef(InitName, <<Pass>>, <<>>),
                FunctionDef(<<"m">>, <<CallStmt(Name(<<"C">>), 2)>>, <<>>)>>,
              <<>>),
     ClassDef(<<"C">>, <<CallStmt(Name(<<"F">>), 1)>>, <<Pass>>,
              <<CallStmt(Name(<<"F">>), 2)>>),
     CallStmt(Expr("Subscript", <<"x">>, <<>>), 1),
     CallStmt(Expr("Call", <<"f">>, <<>>), 2),
     CallStmt(Expr("Subscript", <<"x">>, <<<<"g">>>>), 1),
     FunctionDef(<<"f">>,
                 <<AsyncFunctionDef(<<"h">>, <<CallStmt(Name(<<"F">>), 1)>>, <<>>)>>,
                 <<>>)}

BodiesA == UNION {[1..n -> StmtPool] : n \in 0..MaxStmts}

\* c.py: def F(): pass, or class F with an __init__, or text that does not
\* parse.
FilesC ==
    {SourceFile(RelC, TRUE, <<FunctionDef(<<"F">>, <<Pass>>, <<>>)>>),
     SourceFile(RelC, TRUE,
                <<ClassDef(<<"F">>, <<>>, <<FunctionDef(InitName, <<Pass>>, <<>>)>>, <<>>)>>),
     SourceFile(RelC, FALSE, <<>>)}

\* p/b.py: def F(): f(), then the module-level call F()
FilesB == {SourceFile(RelB, TRUE,
              <<FunctionDef(<<"F">>, <<CallStmt(Name(<<"f">>), 1)>>, <<>>),
                CallStmt(Name(<<"F">>), 2)>>)}

\* p.py: def b(): pass, whose id p.b is also the id of the module of p/b.py.
FileP == SourceFile(RelP, TRUE, <<FunctionDef(<<"b">>, <<Pass>>, <<>>)>>)

RootOrders ==
    UNION {{<<fa>>, <<fa, FileP>>, <<FileP, fa>>}
              \cup UNION {{<<fa, fc>>, <<fc, fa>>} : fc \in FilesC} :
              fa \in {SourceFile(RelA, TRUE, body) : body \in BodiesA}}

WalkOrders ==
    {<<>>} \cup RootOrders \cup {r \o <<fb>> : r \in RootOrders, fb \in FilesB}

(***************************************************************************)
(* resolver.py: resolve_project, one action per loop iteration.            *)
(***************************************************************************)
InitResolve ==
    /\ files \in WalkOrders
    /\ file_infos = <<>>
    /\ symbol_table = <<>>
    /\ symbol_index = <<>>
    /\ call_list = <<>>
    /\ cursor = 0
    /\ pc = "first_pass"
    /\ project = NoProject
    /\ raised = "none"
    /\ config = NoConfig
    /\ graph = NoGraph
    /\ graph0 = NoGraph
    /\ filtered = NoProject
    /\ passes = 0
    /\ SearchIdle

\* An iteration of the first loop on a file ast.parse accepts.
ParseFile ==
    /\ pc = "first_pass"
    /\ Len(file_infos) < Len(files)
    /\ LET f == files[Len(file_infos) + 1]
       IN /\ f.parses
          /\ symbol_table' = FirstPassFile(symbol_table, f)
          /\ file_infos' = Append(file_infos,
                [rel |-> f.rel, module |-> ModuleNameFromPath(f.rel), tree |-> f.body])
    /\ UNCHANGED <<files, symbol_index, call_list, cursor, pc, project, raised>>
    /\ UNCHANGED <<config, graph, graph0, filtered, passes>>
    /\ UNCHANGED searchVars

\* A variant that skips a file ast.parse rejects and goes on.
ParseError_Skip ==
    /\ pc = "first_pass"
    /\ Len(file_infos) < Len(files)
    /\ ~files[Len(file_infos) + 1].parses
    /\ file_infos' = Append(file_infos,
          [rel |-> files[Len(file_infos) + 1].rel,
           module |-> ModuleNameFromPath(files[Len(file_infos) + 1].rel),
           tree |-> <<>>])
    /\ UNCHANGED <<files, symbol_table, symbol_index, call_list, cursor, pc, project, raised>>
    /\ UNCHANGED <<config, graph, graph0, filtered, passes>>
    /\ UNCHANGED searchVars

\* An iteration of the first loop on a file ast.parse rejects: SyntaxError
\* leaves resolve_project.
ParseError ==
    /\ pc = "first_pass"
    /\ Len(file_infos) < Len(files)
    /\ ~files[Len(file_infos) + 1].parses
    /\ raised' = "SyntaxError"
    /\ pc' = "error"
    /\ UNCHANGED <<files, file_infos, symbol_table, symbol_index, call_list, cursor, project>>
    /\ UNCHANGED <<config, graph, graph0, filtered, passes>>
    /\ UNCHANGED searchVars

\* A variant that builds the index as soon as one file has been parsed.
BuildIndex_Early ==
    /\ pc = "first_pass"
    /\ Len(file_infos) >= 1
    /\ symbol_index' = BuildSymbolIndex(symbol_table)
    /\ cursor' = 1
    /\ pc' = "second_pass"
    /\ UNCHANGED <<files, file_infos, symbol_table, call_list, project, raised>>
    /\ UNCHANGED <<config, graph, graph0, filtered, passes>>
    /\ UNCHANGED searchVars

\* After the first loop: symbol_index = _build_symbol_index(symbols).
BuildIndex ==
    /\ pc = "first_pass"
    /\ Len(file_infos) = Len(files)
    /\ symbol_index' = BuildSymbolIndex(symbol_table)
    /\ cursor' = 1
    /\ pc' = "second_pass"
    /\ UNCHANGED <<files, file_infos, symbol_table, call_list, project, raised>>
    /\ UNCHANGED <<config, graph, graph0, filtered, passes>>
    /\ UNCHANGED searchVars

\* An iteration of the second loop: a new visitor walks the file's tree and
\* its calls are appended.
VisitFile ==
    /\ pc = "second_pass"
    /\ cursor <= Len(file_infos)
    /\ call_list' = call_list \o CallsOfFile(file_infos[cursor], symbol_index)
    /\ cursor' = cursor + 1
    /\ UNCHANGED <<files, file_infos, symbol_table, symbol_index, pc, project, raised>>
    /\ UNCHANGED <<config, graph, graph0, filtered, passes>>
    /\ UNCHANGED searchVars

\* return ResolvedProject(root, symbols, calls)
Return ==
    /\ pc = "second_pass"
    /\ cursor > Len(file_infos)
    /\ project' = [symbols |-> DictToMap(symbol_table), calls |-> call_list]
    /\ pc' = "resolved"
    /\ UNCHANGED <<files, file_infos, symbol_table, symbol_index, call_list, cursor, raised>>
    /\ UNCHANGED <<config, graph, graph0, filtered, passes>>
    /\ UNCHANGED searchVars

\* resolve_project on files that all parse, as one function: the first loop,
\* the index, the second loop.
RECURSIVE FirstPass(_, _)
FirstPass(d, fs) ==
    IF fs = <<>> THEN d ELSE FirstPass(FirstPassFile(d, Head(fs)), Tail(fs))

RECURSIVE SecondPass(_, _)
SecondPass(fs, index) ==
    IF fs = <<>> THEN <<>>
    ELSE CallsOfFile([rel |-> Head(fs).rel, module |-> ModuleNameFromPath(Head(fs).rel),
                      tree |-> Head(fs).body], index)
           \o SecondPass(Tail(fs), index)

ResolveProject(fs) ==
    LET d == FirstPass(<<>>, fs)
    IN [symbols |-> DictToMap(d), calls |-> SecondPass(fs, BuildSymbolIndex(d))]

NextResolve == ParseFile \/ ParseError \/ BuildIndex \/ VisitFile \/ Return

SpecResolve == InitResolve /\ [][NextResolve]_vars

(***************************************************************************)
(* resolve_project on projects made to exercise import aliases, callee     *)
(* formatting and the three lookups of _resolve_callee_id.                 *)
(***************************************************************************)
\* The statements a.py is made of here.
\*   async def f(): x.f()               class C:
\*   class f:                               class D:
\*       class f: f()                           def f(self): f()
\*   import p.b as q                    def g():
\*   import p.b                             async def h():
\*   from . import F as q                       from c import F as q
\*   from c import F
\*   def r(): q(); q.q(); p.b.F(); F(); x[0].g()
Probe ==
    FunctionDef(<<"r">>,
                <<CallStmt(Name(<<"q">>), 1),
                  CallStmt(Attr(<<"q">>, <<"q">>), 2),
                  CallStmt(Expr("Name", <<"p">>, << <<"b">>, <<"F">> >>), 3),
                  CallStmt(Name(<<"F">>), 4),
                  CallStmt(Expr("Subscript", <<"x">>, << <<"g">> >>), 5)>>,
                <<>>)

CalleePool ==
    {AsyncFunctionDef(<<"f">>, <<CallStmt(Attr(<<"x">>, <<"f">>), 1)>>, <<>>),
     ClassDef(<<"C">>, <<>>,
              <<ClassDef(<<"D">>, <<>>,
                         <<FunctionDef(<<"f">>, <<CallStmt(Name(<<"f">>), 2)>>, <<>>)>>,
                         <<>>)>>,
              <<>>),
     ClassDef(<<"f">>, <<>>,
              <<ClassDef(<<"f">>, <<>>, <<CallStmt(Name(<<"f">>), 3)>>, <<>>)>>,
              <<>>),
     Import(ModB, <<"q">>),
     Import(ModB, <<>>),
     ImportFrom(<<>>, <<"F">>, <<"q">>),
     ImportFrom(ModC, <<"F">>, <<>>),
     FunctionDef(<<"g">>,
                 <<AsyncFunctionDef(<<"h">>, <<ImportFrom(ModC, <<"F">>, <<"q">>)>>, <<>>)>>,
                 <<>>),
     Probe}

CalleeBodies == UNION {[1..n -> CalleePool] : n \in 0..(MaxStmts + 1)}

\* c.py: def F(): pass
CalleeFileC == SourceFile(RelC, TRUE, <<FunctionDef(<<"F">>, <<Pass>>, <<>>)>>)

\* p/b.py: def F(): f(), then the module-level call q()
CalleeFileB ==
    SourceFile(RelB, TRUE,
               <<FunctionDef(<<"F">>, <<CallStmt(Name(<<"f">>), 1)>>, <<>>),
                 CallStmt(Name(<<"q">>), 2)>>)

\* pkg/__init__.py is empty
\* pkg/a.py: def f(): pass
\* pkg/b.py: from pkg.a import f as foo
\*           def g(): foo()
RelPkgA == <<"p", "k", "g", "/", "a", ".", "p", "y">>
RelPkgB == <<"p", "k", "g", "/", "b", ".", "p", "y">>
ModPkgA == <<"p", "k", "g", ".", "a">>
ModPkgB == <<"p", "k", "g", ".", "b">>
Foo == <<"f", "o", "o">>

PkgFiles ==
    <<SourceFile(<<"p", "k", "g", "/">> \o InitName \o <<".", "p", "y">>, TRUE, <<>>),
      SourceFile(RelPkgA, TRUE, <<FunctionDef(<<"f">>, <<Pass>>, <<>>)>>),
      SourceFile(RelPkgB, TRUE,
                 <<ImportFrom(ModPkgA, <<"f">>, Foo),
                   FunctionDef(<<"g">>, <<CallStmt(Name(Foo), 5)>>, <<>>)>>)>>

CalleeOrders ==
    {PkgFiles, <<SourceFile(RelC, FALSE, <<>>)>>}
      \cup UNION {{<<fa>>, <<fa, CalleeFileB>>, <<CalleeFileC, fa, CalleeFileB>>} :
                     fa \in {SourceFile(RelA, TRUE, body) : body \in CalleeBodies}}

InitCallee ==
    /\ files \in CalleeOrders
    /\ file_infos = <<>>
    /\ symbol_table = <<>>
    /\ symbol_index = <<>>
    /\ call_list = <<>>
    /\ cursor = 0
    /\ pc = "first_pass"
    /\ project = NoProject
    /\ raised = "none"
    /\ config = NoConfig
    /\ graph = NoGraph
    /\ graph0 = NoGraph
    /\ filtered = NoProject
    /\ passes = 0
    /\ SearchIdle

SpecCallee == InitCallee /\ [][NextResolve]_vars

(***************************************************************************)
(* Reachability, defined independently of the search of the code.          *)
(***************************************************************************)
\* The nodes reached from the set S by one or more edges of E.
RECURSIVE ReachFrom(_, _, _)
ReachFrom(E, frontier, seen) ==
    LET next == {e[2] : e \in {ee \in E : ee[1] \in frontier}} \ seen
    IN IF next = {} THEN seen ELSE ReachFrom(E, next, seen \cup next)

\* There is a directed path of at least one edge of E from u to v.
PathIn(E, u, v) == v \in ReachFrom(E, {u}, {})

EdgeKeys(g) == DOMAIN g.edges

(***************************************************************************)
(* Properties of the transitive reduction, under SpecPrune.                *)
(***************************************************************************)
Tri == {<<<<"a">>, <<"b">>>>, <<<<"b">>, <<"c">>>>, <<<<"a">>, <<"c">>>>}
Fork == {<<<<"a">>, <<"b">>>>, <<<<"a">>, <<"c">>>>}

\* C1: after one pass of _prune_transitive_edges over the edge set E, in
\* whatever order the edges were examined, the remaining edges are exactly
\* the (u,v) of E with no directed path from u to v in E minus {(u,v)}; so
\* {a->b, b->c, a->c} becomes {a->b, b->c} and {a->b, a->c} is unchanged.
C1_PruneExact ==
    passes = 1 =>
        /\ EdgeKeys(graph) =
              {e \in EdgeKeys(graph0) : ~PathIn(EdgeKeys(graph0) \ {e}, e[1], e[2])}
        /\ (EdgeKeys(graph0) = Tri => EdgeKeys(graph) = Tri \ {<<<<"a">>, <<"c">>>>})
        /\ (EdgeKeys(graph0) = Fork => EdgeKeys(graph) = Fork)

\* The triangle a->b->c with the shortcut a->c has been pruned.
C1_Witness ==
    /\ passes = 1
    /\ EdgeKeys(graph0) = Tri
    /\ EdgeKeys(graph) = {<<<<"a">>, <<"b">>>>, <<<<"b">>, <<"c">>>>}

\* C2: after one pass, v is reachable from u through the remaining edges if
\* and only if it was reachable from u through the original edges.
C2_ReachabilityPreserved ==
    passes = 1 =>
        \A u, v \in DOMAIN graph0.nodes :
            PathIn(EdgeKeys(graph), u, v) <=> PathIn(EdgeKeys(graph0), u, v)

(***************************************************************************)
(* Properties of build_call_graph, under Spec.                             *)
(***************************************************************************)
Built == pc = "built"
Called == pc # "start"

\* The number of calls of the sequence that satisfy P.
CountCalls(calls, P(_)) == Cardinality({i \in DOMAIN calls : P(calls[i])})

\* The lines of the calls that satisfy P, in call-list order.
LinesOf(calls, P(_)) ==
    LET sel == SelectSeq(calls, P) IN [i \in 1..Len(sel) |-> sel[i].lineno]

RECURSIVE SumCounts(_, _)
SumCounts(edges, keys) ==
    IF keys = {} THEN 0
    ELSE LET k == CHOOSE x \in keys : TRUE
         IN edges[k].call_count + SumCounts(edges, keys \ {k})

\* The id names a symbol of the project that has a node at this granularity:
\* a function or method under "function", any symbol under "file".
Mappable(id, proj, cfg) ==
    /\ id # None
    /\ id \in DOMAIN proj.symbols
    /\ cfg.node_granularity = "function" =>
          proj.symbols[id].kind \in {"function", "method"}

\* The node a mappable id stands for: itself under "function", its module
\* under "file".
NodeOf(id, proj, cfg) ==
    IF cfg.node_granularity = "function" THEN id ELSE proj.symbols[id].module

\* The call runs from node A to node B.
Links(c, A, B, proj, cfg) ==
    /\ Mappable(c.caller_id, proj, cfg)
    /\ Mappable(c.callee_id, proj, cfg)
    /\ NodeOf(c.caller_id, proj, cfg) = A
    /\ NodeOf(c.callee_id, proj, cfg) = B

\* C3: no edge of a built graph, pruned or not, has src == dst: a call is
\* dropped as a self-loop once caller and callee are mapped to node ids.
C3_NoSelfLoops ==
    Built => \A g \in {graph, graph0} : \A k \in DOMAIN g.edges :
                /\ g.edges[k].src # g.edges[k].dst
                /\ k[1] # k[2]

\* Under file granularity, a method called a function of its own file and the
\* graph has no edge.
C3_Witness ==
    /\ Built
    /\ config.node_granularity = "file"
    /\ \E i \in DOMAIN project.calls :
          project.calls[i].caller_id = IdM /\ project.calls[i].callee_id = IdF
    /\ DOMAIN graph.edges = {}

\* C4: for distinct nodes A and B, if N calls map to (A,B) at lines L1..LN in
\* call-list order, the unpruned graph has one edge (A,B) with call_count N
\* and line_numbers <<L1..LN>>, duplicates kept; if N = 0 there is no edge.
C4_Aggregation ==
    Built =>
      /\ DOMAIN graph0.edges \subseteq (DOMAIN graph0.nodes) \X (DOMAIN graph0.nodes)
      /\ \A A, B \in DOMAIN graph0.nodes : A # B =>
        LET ls == LinesOf(project.calls, LAMBDA c : Links(c, A, B, project, config))
        IN IF ls = <<>> THEN <<A, B>> \notin DOMAIN graph0.edges
           ELSE /\ <<A, B>> \in DOMAIN graph0.edges
                /\ graph0.edges[<<A, B>>].call_count = Len(ls)
                /\ graph0.edges[<<A, B>>].line_numbers = ls
                /\ graph0.edges[<<A, B>>].src = A
                /\ graph0.edges[<<A, B>>].dst = B

\* Two calls from one node to another, the later line first.
C4_Witness ==
    /\ Built
    /\ \E k \in DOMAIN graph0.edges :
          graph0.edges[k].call_count = 2 /\ graph0.edges[k].line_numbers = <<2, 1>>

\* C5: a valid configuration never raises; a call whose caller or callee has
\* no node (callee None, an id absent from the symbol table, a module or
\* class symbol under function granularity) adds to no edge, and every edge
\* is backed by a call whose caller and callee both have nodes.
C5_UnmappedDropped ==
    (Called /\ config.node_granularity \in {"function", "file"}) =>
        /\ Built /\ raised = "none"
        /\ \A k \in DOMAIN graph0.edges :
              \E i \in DOMAIN project.calls :
                  Links(project.calls[i], k[1], k[2], project, config)
        /\ SumCounts(graph0.edges, DOMAIN graph0.edges) =
              CountCalls(project.calls,
                  LAMBDA c : /\ Mappable(c.caller_id, project, config)
                             /\ Mappable(c.callee_id, project, config)
                             /\ NodeOf(c.caller_id, project, config) #
                                   NodeOf(c.callee_id, project, config))

\* Under function granularity, an unresolved call and a call to a class have
\* left the graph without edges.
C5_Witness ==
    /\ Built
    /\ config.node_granularity = "function"
    /\ \E i \in DOMAIN project.calls : project.calls[i].callee_id = None
    /\ \E i \in DOMAIN project.calls : project.calls[i].callee_id = IdC
    /\ DOMAIN graph.edges = {}

\* The symbols of the file whose module is X.
InFile(id, X) == id \in DOMAIN project.symbols /\ project.symbols[id].module = X

\* C6: under file granularity every symbol stands for the node of its module:
\* no edge joins a file to itself, and the calls from symbols of file X to
\* symbols of another file Y make exactly one edge (X,Y), whose call_count is
\* their number.
C6_FileGranularity ==
    (Built /\ config.node_granularity = "file") =>
        /\ \A k \in DOMAIN graph0.edges : k[1] # k[2]
        /\ DOMAIN graph0.edges \subseteq {ModA, ModB} \X {ModA, ModB}
        /\ \A X, Y \in {ModA, ModB} : X # Y =>
              LET n == CountCalls(project.calls,
                          LAMBDA c : InFile(c.caller_id, X) /\ InFile(c.callee_id, Y))
              IN IF n = 0 THEN <<X, Y>> \notin DOMAIN graph0.edges
                 ELSE /\ <<X, Y>> \in DOMAIN graph0.edges
                      /\ graph0.edges[<<X, Y>>].call_count = n

\* A function and a method of a.py both called F of p/b.py: one edge, count 2.
C6_Witness ==
    /\ Built
    /\ config.node_granularity = "file"
    /\ \E i \in DOMAIN project.calls : project.calls[i].caller_id = IdF
    /\ \E i \in DOMAIN project.calls : project.calls[i].caller_id = IdM
    /\ DOMAIN graph.edges = {<<ModA, ModB>>}
    /\ graph.edges[<<ModA, ModB>>].call_count = 2

KindIds(proj, kinds) == {k \in DOMAIN proj.symbols : proj.symbols[k].kind \in kinds}

\* C7: with no keyword filter the nodes are, under function granularity, the
\* function, method and attribute-group symbols, and under file granularity
\* the module symbols.
C7_NodeSet ==
    Built =>
        DOMAIN graph.nodes =
            IF config.node_granularity = "function"
            THEN KindIds(project, {"function", "method", "attribute"})
            ELSE KindIds(project, {"module"})

\* C8: a granularity other than "function" or "file" raises ValueError for
\* every project, with no node or edge created and no graph returned.
C8_InvalidGranularity ==
    (Called /\ config.node_granularity \notin {"function", "file"}) =>
        /\ raised = "ValueError"
        /\ pc = "error"
        /\ DOMAIN graph.nodes = {}
        /\ DOMAIN graph.edges = {}

\* The call with an unsupported granularity on the empty project has raised.
C8_Witness ==
    /\ pc = "error"
    /\ raised = "ValueError"
    /\ config.node_granularity = "weird"
    /\ DOMAIN project.symbols = {}

\* The innermost class or module enclosing the definition named qualname.
RECURSIVE Innermost(_, _, _)
Innermost(qualname, module, symbols) ==
    LET parent == BeforeLastDot(qualname)
    IN IF parent = module \/ ~HasDot(parent) THEN module
       ELSE IF parent \in DOMAIN symbols /\ symbols[parent].kind = "class" THEN parent
       ELSE Innermost(parent, module, symbols)

\* C9: under function granularity with clustering on, each node's cluster is
\* the qualname of the class directly containing it, or its module for a
\* top-level function; with clustering off every cluster is None.
C9_Cluster ==
    (Built /\ config.node_granularity = "function") =>
        \A n \in DOMAIN graph.nodes :
            graph.nodes[n].cluster =
                IF config.cluster_by_module
                THEN Innermost(project.symbols[n].qualname, project.symbols[n].module,
                               project.symbols)
                ELSE None

(***************************************************************************)
(* Properties of the keyword filter, under SpecFilter.                     *)
(***************************************************************************)
Filtered == pc = "filtered"

\* The function and method symbols whose name or qualified name contains one
\* of the keywords, case-sensitively.
DirectMatches ==
    {i \in KindIds(project, {"function", "method"}) :
        \E k \in DOMAIN config.filter_keywords :
            \/ Contains(project.symbols[i].name, config.filter_keywords[k])
            \/ Contains(project.symbols[i].qualname, config.filter_keywords[k])}

\* The graph a consumer builds from the filtered project.
Downstream == Unpruned(filtered, FilterConfig(<<>>, FALSE))

\* The part of C10 about nodes and edges: the kept nodes are exactly the
\* direct matches, and only edges between kept nodes remain.
KeptNodesAndEdges ==
    /\ DOMAIN graph.nodes = DirectMatches
    /\ KindIds(filtered, {"function", "method"}) = DirectMatches
    /\ DOMAIN Downstream.nodes = DirectMatches
    /\ DOMAIN graph.edges =
          {k \in DOMAIN Unpruned(project, FilterConfig(<<>>, FALSE)).edges :
              k[1] \in DirectMatches /\ k[2] \in DirectMatches}
    /\ DOMAIN Downstream.edges = DOMAIN graph.edges

AllEdges == DOMAIN Unpruned(project, FilterConfig(<<>>, FALSE)).edges

\* The direct matches and every node reached from one by outgoing edges.
MatchClosure == DirectMatches \cup ReachFrom(AllEdges, DirectMatches, {})

Resolved == pc = "resolved"

\* C12: every symbol is stored under a key equal to its own id and no two
\* symbols share an id, while the table is filled and in the ResolvedProject
\* returned, whatever the files, the nesting and the repetition.
C12_UniqueIds ==
    /\ \A i \in DOMAIN symbol_table : symbol_table[i].key = symbol_table[i].value.id
    /\ \A i, j \in DOMAIN symbol_table :
          i # j => symbol_table[i].value.id # symbol_table[j].value.id
    /\ Resolved =>
          /\ \A k \in DOMAIN project.symbols : project.symbols[k].id = k
          /\ DOMAIN project.symbols = DictKeys(symbol_table)
          /\ Cardinality(DOMAIN project.symbols) = Len(symbol_table)

\* a.py defined f twice, once with a nested h: one a.f and one a.f.h are in
\* the project returned.
C12_Witness ==
    /\ Resolved
    /\ Len(files) >= 1
    /\ files[1].rel = RelA
    /\ Len(files[1].body) = 2
    /\ files[1].body[1].t = "FunctionDef" /\ files[1].body[1].name = <<"f">>
    /\ files[1].body[2].t = "FunctionDef" /\ files[1].body[2].name = <<"f">>
    /\ files[1].body[1] # files[1].body[2]
    /\ {IdF, Dot(IdF, <<"h">>)} \subseteq DOMAIN project.symbols

\* C13: in the ResolvedProject returned, and in the call list while it is
\* collected, every Call's caller_id is a key of the symbol table and every
\* callee_id that is not None is a key of the symbol table.
C13_CallIntegrity ==
    /\ \A i \in DOMAIN call_list :
          /\ call_list[i].caller_id \in DictKeys(symbol_table)
          /\ call_list[i].callee_id # None => call_list[i].callee_id \in DictKeys(symbol_table)
    /\ Resolved =>
          \A i \in DOMAIN project.calls :
              /\ project.calls[i].caller_id \in DOMAIN project.symbols
              /\ project.calls[i].callee_id # None =>
                    project.calls[i].callee_id \in DOMAIN project.symbols

\* The project returned has a call from the nested definition a.f.h resolved
\* to c.F, and a call from the module level of p/b.py, whose id p.b is the
\* key of p.py's function b.
C13_Witness ==
    /\ Resolved
    /\ \E i \in DOMAIN project.calls :
          /\ project.calls[i].caller_id = Dot(IdF, <<"h">>)
          /\ project.calls[i].callee_id # None
    /\ \E i \in DOMAIN project.calls :
          /\ project.calls[i].caller_id = ModB
          /\ project.symbols[ModB].kind = "function"

\* C14: every Call's caller_id names a symbol of kind module, function or
\* method, never a class, also for the calls written directly in a class
\* body, in a class's decorators and in its base-class expressions.
C14_CallerKinds ==
    Resolved =>
        \A i \in DOMAIN project.calls :
            /\ project.calls[i].caller_id \in DOMAIN project.symbols
            /\ project.symbols[project.calls[i].caller_id].kind
                  \in {"module", "function", "method"}

\* C15: a call resolved to a class whose __init__ method is in the symbol
\* table is followed at once in the call list by a call from the same caller
\* whose callee_id is that __init__ and whose raw_callee is the dotted
\* Class.__init__ form; a call to a class without __init__ is followed by no
\* such call.
C15_InitCall ==
    Resolved =>
        \A i \in DOMAIN project.calls :
            LET c == project.calls[i]
                init == Dot(c.callee_id, InitName)
            IN (c.callee_id # None /\ project.symbols[c.callee_id].kind = "class") =>
                 IF init \in DOMAIN project.symbols
                 THEN /\ i + 1 \in DOMAIN project.calls
                      /\ project.calls[i + 1].caller_id = c.caller_id
                      /\ project.calls[i + 1].callee_id = init
                      /\ project.calls[i + 1].raw_callee = Dot(c.raw_callee, InitName)
                 ELSE \A j \in DOMAIN project.calls : project.calls[j].callee_id # init

\* The targets of the call nodes of a list of statements, in the order a
\* walk of the tree meets them.
RECURSIVE CallNodes(_)
CallNodes(stmts) ==
    IF stmts = <<>> THEN <<>>
    ELSE LET s == Head(stmts)
             here == IF s.t = "Call"
                     THEN (IF s.func.root = "Call"
                           THEN <<s.func, Name(s.func.id)>> ELSE <<s.func>>)
                     ELSE CallNodes(s.pre) \o CallNodes(s.body) \o CallNodes(s.post)
         IN here \o CallNodes(Tail(stmts))

\* The call nodes of all the files, in enumeration order.
RECURSIVE AllCallNodes(_)
AllCallNodes(fs) ==
    IF fs = <<>> THEN <<>> ELSE CallNodes(Head(fs).body) \o AllCallNodes(Tail(fs))

\* C16: every call node gives exactly one Call; the Call of a target that is
\* not a name or an attribute chain rooted in a name (a subscript, a call of
\* a call, an attribute of one) has raw_callee "<unknown>" and callee_id
\* None, no error is raised, and the calls around it are recorded and
\* resolved as usual: a call f() is still resolved to a.f.
C16_UnknownCallee ==
    Resolved =>
        LET nodes == AllCallNodes(files)
        IN /\ raised = "none"
           /\ Len(project.calls) = Len(nodes)
           /\ \A i \in DOMAIN nodes :
                 /\ (nodes[i].root # "Name") <=> (project.calls[i].raw_callee = Unknown)
                 /\ nodes[i].root # "Name" => project.calls[i].callee_id = None
                 /\ (nodes[i] = Name(<<"f">>) /\ IdF \in DOMAIN project.symbols) =>
                       project.calls[i].callee_id = IdF

\* In a.py, def f(): F() and then f()(): the call list is F resolved, the
\* unknown call of a call, and f resolved.
C16_Witness ==
    /\ Resolved
    /\ \E i \in DOMAIN project.calls :
          /\ i + 2 \in DOMAIN project.calls
          /\ project.calls[i].callee_id # None
          /\ project.calls[i + 1].raw_callee = Unknown
          /\ project.calls[i + 1].callee_id = None
          /\ project.calls[i + 2].callee_id = IdF
          /\ \A j \in {i, i + 1, i + 2} : project.calls[j].file = RelA

SomeFileBroken == \E i \in DOMAIN files : ~files[i].parses

\* C17: when a file of the project does not parse, resolve_project never
\* gets past it: it stays in the first loop until it raises SyntaxError,
\* wherever the file stands in the enumeration and however many files were
\* parsed before it; no ResolvedProject is returned and no call is ever
\* collected; and SyntaxError is raised in no other case.
C17_SyntaxErrorAborts ==
    /\ SomeFileBroken =>
          /\ pc \in {"first_pass", "error"}
          /\ project = NoProject
          /\ call_list = <<>>
    /\ \A i \in DOMAIN file_infos : files[i].parses /\ file_infos[i].rel = files[i].rel
    /\ Len(file_infos) <= Len(files)
    /\ pc = "error" <=> raised = "SyntaxError"
    /\ raised = "SyntaxError" => SomeFileBroken
    /\ raised \in {"none", "SyntaxError"}

\* SyntaxError was raised on the second file, after a.py had been parsed and
\* its symbols stored.
C17_Witness ==
    /\ pc = "error"
    /\ raised = "SyntaxError"
    /\ Len(file_infos) = 1
    /\ file_infos[1].rel = RelA
    /\ Len(symbol_table) >= 2
    /\ Len(files) = 3
    /\ project = NoProject

\* The same files with the first two of the root directory exchanged.
SwapRoot(fs) ==
    IF Len(fs) >= 2 /\ fs[2].rel # RelB
    THEN <<fs[2], fs[1]>> \o SubSeq(fs, 3, Len(fs))
    ELSE fs

\* The calls of the file rel, in order.
CallsIn(cs, rel) == SelectSeq(cs, LAMBDA c : c.file = rel)

IdCF == Dot(ModC, <<"F">>)

\* The part of C18 about the enumeration order: in the project returned, a call of one file to a symbol
\* of another file has the callee_id it has when the two files are
\* enumerated in the other order; a call in a.py written c.F (through
\* "from c import F") is resolved to c.F whether a.py or c.py came first.
C18_OrderIndependent ==
    Resolved =>
        LET other == ResolveProject(SwapRoot(files))
        IN /\ \A f \in DOMAIN files :
                 LET mine == CallsIn(project.calls, files[f].rel)
                     theirs == CallsIn(other.calls, files[f].rel)
                 IN /\ Len(mine) = Len(theirs)
                    /\ \A i \in DOMAIN mine :
                          (mine[i].callee_id # None
                             /\ project.symbols[mine[i].callee_id].file # files[f].rel)
                            => theirs[i].callee_id = mine[i].callee_id
           /\ \A i \in DOMAIN project.calls :
                 (project.calls[i].raw_callee = IdCF /\ IdCF \in DOMAIN project.symbols)
                   => project.calls[i].callee_id = IdCF

\* C18: no call is collected during the first loop; the second loop runs
\* only once every file has been parsed, on the symbol table of all the
\* files and the index built from it, neither of which changes while calls
\* are resolved; and the callee ids do not depend on which file was
\* enumerated first.
C18_IndexBeforeResolution ==
    /\ pc = "first_pass" => call_list = <<>> /\ symbol_index = <<>>
    /\ call_list # <<>> => pc \in {"second_pass", "resolved"}
    /\ pc \in {"second_pass", "resolved"} =>
          /\ Len(file_infos) = Len(files)
          /\ symbol_table = FirstPass(<<>>, files)
          /\ symbol_index = BuildSymbolIndex(FirstPass(<<>>, files))
    /\ C18_OrderIndependent

\* a.py was enumerated before c.py, and its call F(), imported from c, is
\* resolved to c.F in the project returned.
C18_Witness ==
    /\ Resolved
    /\ Len(files) >= 2
    /\ files[1].rel = RelA
    /\ files[2].rel = RelC
    /\ \E i \in DOMAIN project.calls :
          /\ project.calls[i].file = RelA
          /\ project.calls[i].raw_callee = IdCF
          /\ project.calls[i].callee_id = IdCF

(***************************************************************************)
(* Properties of the consumers of a ResolvedProject, under SpecConsumers.  *)
(***************************************************************************)
\* a can be obtained from b by deleting elements.
RECURSIVE IsSubsequence(_, _)
IsSubsequence(a, b) ==
    IF a = <<>> THEN TRUE
    ELSE IF b = <<>> THEN FALSE
    ELSE IF Head(a) = Head(b) THEN IsSubsequence(Tail(a), Tail(b))
    ELSE IsSubsequence(a, Tail(b))

\* The filtered project holds symbols and calls of the project it was made
\* from, and nothing else.
FilteredIsPart ==
    Filtered =>
        /\ DOMAIN filtered.symbols \subseteq DOMAIN project.symbols
        /\ \A k \in DOMAIN filtered.symbols : filtered.symbols[k] = project.symbols[k]
        /\ IsSubsequence(filtered.calls, project.calls)

SearchBounded ==
    /\ \A i, j \in DOMAIN bfs_enqueued : i # j => bfs_enqueued[i] # bfs_enqueued[j]
    /\ \A i \in DOMAIN bfs_enqueued : bfs_enqueued[i] \in DOMAIN adjacency
    /\ {bfs_queue[i] : i \in DOMAIN bfs_queue} \subseteq bfs_visited
    /\ searches + Len(todo) = Cardinality(DOMAIN graph0.edges)
    /\ pc = "pruned" =>
          /\ searches = Cardinality(DOMAIN graph0.edges)
          /\ graph = PruneTransitiveEdges(graph0, SetToSeq(DOMAIN graph0.edges))

\* C20: on every finite graph, cyclic or not, each _has_alternate_path
\* search appends each node to the queue at most once and returns,
\* _prune_transitive_edges makes exactly one search per edge, and the
\* reduction ends.
C20_PruneTerminates ==
    /\ []SearchBounded
    /\ <>(pc = "pruned")
    /\ [](pc = "search" => <>(pc = "edges"))

\* The reduction has ended on the two-cycle a <-> b with both edges into c:
\* four searches were made.
C20_Witness ==
    /\ pc = "pruned"
    /\ DOMAIN graph0.edges = {<<<<"a">>, <<"b">>>>, <<<<"b">>, <<"a">>>>,
                              <<<<"a">>, <<"c">>>>, <<<<"b">>, <<"c">>>>}
    /\ searches = 4

(***************************************************************************)
(* Properties of callee resolution, under SpecCallee.  The candidates of a *)
(* lookup are read from the symbol table, not from the index.              *)
(***************************************************************************)
IsCallTarget(sym) == sym.kind \in {"function", "method", "class"}

\* The function, method and class symbols of a module with a short name, in
\* the order of the symbol table.
Candidates(module, name) ==
    SelectSeq(DictValues(symbol_table),
              LAMBDA v : IsCallTarget(v) /\ v.module = module /\ v.name = name)

\* Every function, method and class symbol with a short name.
Named(name) ==
    {symbol_table[i].value : i \in {j \in DOMAIN symbol_table :
         IsCallTarget(symbol_table[j].value) /\ symbol_table[j].value.name = name}}

ShortName(raw) == IF HasDot(raw) THEN AfterLastDot(raw) ELSE raw

\* The lookup of (text before the last dot, text after it) finds something.
DirectHit(raw) ==
    HasDot(raw) /\ Candidates(BeforeLastDot(raw), AfterLastDot(raw)) # <<>>

\* The symbols under (module of the call's file, short name).
InCurrentModule(c) == Candidates(ModuleNameFromPath(c.file), ShortName(c.raw_callee))

IdsOf(cands) == {cands[i].id : i \in DOMAIN cands}

\* The result of the project-wide scan alone.
ScanResult(raw) ==
    IF Cardinality(Named(ShortName(raw))) = 1
    THEN (CHOOSE sym \in Named(ShortName(raw)) : TRUE).id
    ELSE None

\* C21 as stated: a call whose text has no dot, or has a dot and no direct
\* hit, and whose short name is defined in the current module, resolves to a
\* candidate of the current module.
C21_CurrentModuleLookup ==
    \A i \in DOMAIN call_list :
        LET c == call_list[i]
        IN (c.raw_callee # Unknown /\ ~DirectHit(c.raw_callee) /\ InCurrentModule(c) # <<>>) =>
              c.callee_id \in IdsOf(InCurrentModule(c))

\* C21 amended: a call whose text has no dot and whose name is defined in
\* the current module resolves to a candidate of the current module, also
\* when the project-wide scan would give something else; a call whose text
\* has a dot and no direct hit is resolved by the project-wide scan alone.
C21_BareNameLookup ==
    \A i \in DOMAIN call_list :
        LET c == call_list[i]
        IN /\ (c.raw_callee # Unknown /\ ~HasDot(c.raw_callee) /\ InCurrentModule(c) # <<>>) =>
                 c.callee_id \in IdsOf(InCurrentModule(c))
           /\ (HasDot(c.raw_callee) /\ ~DirectHit(c.raw_callee)) =>
                 c.callee_id = ScanResult(c.raw_callee)

\* a.py holds async def f(): x.f() and class C: class D: def f(self): f().
\* The bare f() is resolved in the current module although two symbols are
\* named f; the dotted x.f, with the same two candidates, is left unresolved.
C21_Witness ==
    /\ pc = "resolved"
    /\ \E i, j \in DOMAIN project.calls :
          /\ project.calls[i].raw_callee = <<"f">>
          /\ project.calls[i].callee_id = IdF
          /\ Cardinality(Named(<<"f">>)) = 2
          /\ project.calls[j].raw_callee = <<"x", ".", "f">>
          /\ project.calls[j].callee_id = None
          /\ Len(InCurrentModule(project.calls[j])) = 2

\* C22: a call whose text is not the sentinel, has no direct hit and names
\* nothing of the current module gets the id of the one function, method or
\* class of the project with that short name, and None when there is none or
\* more than one, in one module or in several; nothing is raised.
C22_GlobalScan ==
    /\ pc # "error" => raised = "none"
    /\ \A i \in DOMAIN call_list :
          LET c == call_list[i]
              named == Named(ShortName(c.raw_callee))
          IN (c.raw_callee # Unknown /\ ~DirectHit(c.raw_callee) /\ InCurrentModule(c) = <<>>) =>
                /\ Cardinality(named) = 1 => \E sym \in named : c.callee_id = sym.id
                /\ Cardinality(named) # 1 => c.callee_id = None

\* a.py defines two symbols named f and calls q() and F(); p/b.py defines
\* the only F and calls f().  F is resolved to p.b.F, q (no symbol) and f
\* (two symbols under one key) are not.
C22_Witness ==
    /\ pc = "resolved"
    /\ raised = "none"
    /\ \E i, j, k \in DOMAIN project.calls :
          /\ project.calls[i].file = RelA
          /\ project.calls[i].raw_callee = <<"F">>
          /\ project.calls[i].callee_id = Dot(ModB, <<"F">>)
          /\ project.calls[j].raw_callee = <<"q">>
          /\ Named(<<"q">>) = {}
          /\ project.calls[j].callee_id = None
          /\ project.calls[k].file = RelB
          /\ project.calls[k].raw_callee = <<"f">>
          /\ Len(Candidates(ModA, <<"f">>)) = 2
          /\ project.calls[k].callee_id = None

\* The candidates of the lookup that resolves a call directly or in the
\* current module, <<>> when neither lookup is made or neither hits.
LookupCandidates(c) ==
    IF c.raw_callee = Unknown THEN <<>>
    ELSE IF HasDot(c.raw_callee)
         THEN Candidates(BeforeLastDot(c.raw_callee), AfterLastDot(c.raw_callee))
         ELSE InCurrentModule(c)

IsFuncLike(sym) == sym.kind \in {"function", "method"}

\* C23: when the lookup of a call finds several symbols under one key, the
\* callee is the earliest function or method of the table order if there is
\* one, otherwise the earliest candidate; a class is not picked while a
\* function or method is a candidate, and the pick is determined by the
\* candidates and their order.
C23_PickBest ==
    \A i \in DOMAIN call_list :
        LET c == call_list[i]
            K == LookupCandidates(c)
            funcs == {k \in DOMAIN K : IsFuncLike(K[k])}
        IN K # <<>> =>
              /\ funcs # {} =>
                    /\ c.callee_id = K[CHOOSE k \in funcs : \A m \in funcs : k <= m].id
                    /\ \E k \in funcs : c.callee_id = K[k].id
              /\ funcs = {} => c.callee_id = K[1].id
              /\ \A j \in DOMAIN call_list :
                    LookupCandidates(call_list[j]) = K => call_list[j].callee_id = c.callee_id

\* a.py holds class f: class f: f() and class C: class D: def f(self): f():
\* the candidates of f are the classes a.f and a.f.f and then the method
\* a.C.D.f, and both calls f() get the method.
C23_Witness ==
    /\ pc = "resolved"
    /\ \E i, j \in DOMAIN project.calls :
          /\ i # j
          /\ LookupCandidates(project.calls[i]) = LookupCandidates(project.calls[j])
          /\ Len(LookupCandidates(project.calls[i])) = 3
          /\ LookupCandidates(project.calls[i])[1].kind = "class"
          /\ LookupCandidates(project.calls[i])[1].id = IdF
          /\ project.calls[i].callee_id = Join(<<ModA, <<"C">>, <<"D">>, <<"f">>>>)
          /\ project.calls[j].callee_id = project.calls[i].callee_id

(***************************************************************************)
(* The imports and calls of a tree in the order the walk meets them, and   *)
(* the binding of a name at a place of that order.                         *)
(***************************************************************************)
RECURSIVE Trace(_)
Trace(stmts) ==
    IF stmts = <<>> THEN <<>>
    ELSE LET s == Head(stmts)
             here ==
               IF s.t \in {"Import", "ImportFrom"} THEN <<s>>
               ELSE IF s.t = "Call"
               THEN (IF s.func.root = "Call"
                     THEN <<s, CallStmt(Name(s.func.id), s.lineno)>> ELSE <<s>>)
               ELSE Trace(s.pre) \o Trace(s.body) \o Trace(s.post)
         IN here \o Trace(Tail(stmts))

\* The places of the call nodes in a trace, in order.
CallPlaces(tr) ==
    LET P == {k \in DOMAIN tr : tr[k].t = "Call"}
    IN [m \in 1..Cardinality(P) |->
           CHOOSE k \in P : Cardinality({j \in P : j <= k}) = m]

\* The imports before place k that bind the local name n.
BindersBefore(tr, k, n) ==
    {j \in 1..(k - 1) : tr[j].t \in {"Import", "ImportFrom"} /\ ImportLocal(tr[j]) = n}

\* What the name n stands for at place k: the target of the latest import
\* before k that binds it, and n itself when there is none.
BoundAt(tr, k, n) ==
    LET B == BindersBefore(tr, k, n)
    IN IF B = {} THEN n
       ELSE ImportTarget(tr[CHOOSE j \in B : \A i \in B : i <= j])

\* The files whose calls have been collected.
Visited ==
    IF pc = "second_pass" THEN 1..(cursor - 1)
    ELSE IF pc = "resolved" THEN DOMAIN files
    ELSE {}

\* C24: the raw callee of a call is, for a bare name, what the alias table
\* binds it to and else the name; for an attribute chain on a name, the same
\* for the root followed by the attribute names as written, joined by dots;
\* and the sentinel for a chain whose root is not a name.
C24_FormatCallee ==
    \A f \in Visited :
        LET tr == Trace(files[f].body)
            at == CallPlaces(tr)
            cs == CallsIn(call_list, files[f].rel)
        IN /\ Len(cs) = Len(at)
           /\ \A m \in DOMAIN at :
                 LET func == tr[at[m]].func
                 IN cs[m].raw_callee =
                       IF func.root # "Name" THEN Unknown
                       ELSE Join(<<BoundAt(tr, at[m], func.id)>> \o func.attrs)

\* a.py holds import p.b as q and then def r() with its five calls: their
\* raw callees are p.b, p.b.q, p.b.F, F and the sentinel.
C24_Witness ==
    /\ pc = "resolved"
    /\ \E i \in DOMAIN project.calls :
          /\ i + 4 \in DOMAIN project.calls
          /\ project.calls[i].raw_callee = ModB
          /\ project.calls[i + 1].raw_callee = Dot(ModB, <<"q">>)
          /\ project.calls[i + 2].raw_callee = Dot(ModB, <<"F">>)
          /\ project.calls[i + 3].raw_callee = <<"F">>
          /\ project.calls[i + 4].raw_callee = Unknown

\* The binding the import statement s makes: `import a.b.c` binds a to a,
\* `import a.b as x` binds x to a.b, `from X import Y [as Z]` binds Y (or Z)
\* to X.Y, and to the bare Y when X is empty.
StatedBinding(s) ==
    IF s.t = "Import"
    THEN (IF s.asname = <<>>
          THEN [local |-> BeforeFirstDot(s.name), target |-> BeforeFirstDot(s.name)]
          ELSE [local |-> s.asname, target |-> s.name])
    ELSE [local |-> IF s.asname = <<>> THEN s.name ELSE s.asname,
          target |-> IF s.module = <<>> THEN s.name ELSE Dot(s.module, s.name)]

\* C25: a call on a name whose latest import before it makes the stated
\* binding is formatted with the stated target, for each of the five forms
\* of import; and the project pkg/a.py, pkg/b.py yields exactly one call,
\* from pkg.b.g, with raw callee pkg.a.f and callee id pkg.a.f.
C25_ImportBinding ==
    /\ \A f \in Visited :
          LET tr == Trace(files[f].body)
              at == CallPlaces(tr)
              cs == CallsIn(call_list, files[f].rel)
          IN \A m \in DOMAIN at :
                LET func == tr[at[m]].func
                    B == {j \in 1..(at[m] - 1) :
                             /\ tr[j].t \in {"Import", "ImportFrom"}
                             /\ StatedBinding(tr[j]).local = func.id}
                IN (func.root = "Name" /\ B # {} /\ m \in DOMAIN cs) =>
                      cs[m].raw_callee =
                         Join(<<StatedBinding(tr[CHOOSE j \in B : \A i \in B : i <= j]).target>>
                              \o func.attrs)
    /\ (files = PkgFiles /\ pc = "resolved") =>
          project.calls =
             <<CallSite(Dot(ModPkgB, <<"g">>), RelPkgB, 5,
                        Dot(ModPkgA, <<"f">>), Dot(ModPkgA, <<"f">>))>>

\* The project pkg/a.py, pkg/b.py has been resolved: pkg.a.f and pkg.b.g are
\* symbols and the one call is that of foo.
C25_Witness ==
    /\ files = PkgFiles
    /\ pc = "resolved"
    /\ {Dot(ModPkgA, <<"f">>), Dot(ModPkgB, <<"g">>)} \subseteq DOMAIN project.symbols
    /\ Len(project.calls) = 1
    /\ project.calls[1].callee_id = Dot(ModPkgA, <<"f">>)

(***************************************************************************)
(* Properties of symbol extraction, under SpecCallee.                      *)
(***************************************************************************)
\* The definitions of a list of statements written under the dotted prefix
\* `outer`: each with the id outer.name, and the definitions of its body
\* under that id.  top tells whether the list is the body of the module.
RECURSIVE Definitions(_, _, _)
Definitions(stmts, outer, top) ==
    UNION {IF stmts[i].t \in {"FunctionDef", "AsyncFunctionDef", "ClassDef"}
           THEN {[id |-> Dot(outer, stmts[i].name),
                  name |-> stmts[i].name,
                  kind |-> IF stmts[i].t = "ClassDef" THEN "class"
                           ELSE IF top THEN "function" ELSE "method"]}
                  \cup Definitions(stmts[i].body, Dot(outer, stmts[i].name), FALSE)
           ELSE {} : i \in DOMAIN stmts}

\* The symbols of the table that are not modules and belong to module m.
DefinedIn(m) ==
    {symbol_table[i].value : i \in {j \in DOMAIN symbol_table :
         symbol_table[j].value.kind # "module" /\ symbol_table[j].value.module = m}}

\* C26: once a file has been through the first pass, the symbols of its
\* module other than the module symbol are its definitions: the ids are
\* module.outermost. ... .name, id and qualname agree, a function definition
\* is a function at the top level and a method under any definition, and a
\* top-level definition that follows a nested one is again named module.name.
C26_SymbolIds ==
    \A f \in DOMAIN file_infos :
        LET m == ModuleNameFromPath(files[f].rel)
            defs == Definitions(files[f].body, m, TRUE)
        IN /\ {sym.id : sym \in DefinedIn(m)} = {d.id : d \in defs}
           /\ \A sym \in DefinedIn(m) :
                 /\ sym.id = sym.qualname
                 /\ [id |-> sym.id, name |-> sym.name, kind |-> sym.kind] \in defs
                 /\ sym.kind = "function" => sym.id = Dot(m, sym.name)
                 /\ sym.kind = "method" =>
                       /\ sym.id # Dot(m, sym.name)
                       /\ BeforeLastDot(sym.id) \in DictKeys(symbol_table)
                       /\ AfterLastDot(sym.id) = sym.name
           /\ \A i \in DOMAIN files[f].body :
                 files[f].body[i].t \in {"FunctionDef", "AsyncFunctionDef", "ClassDef"} =>
                    Dot(m, files[f].body[i].name) \in DictKeys(symbol_table)

\* a.py holds class C: class D: def f, then def g(): async def h, then
\* async def f: the table has the method a.C.D.f, the function a.g, the
\* method a.g.h and the function a.f.
C26_Witness ==
    /\ pc = "resolved"
    /\ Len(files) >= 1
    /\ files[1].rel = RelA
    /\ Len(files[1].body) = 3
    /\ files[1].body[1].t = "ClassDef"
    /\ files[1].body[3].t = "AsyncFunctionDef"
    /\ LET id1 == Join(<<ModA, <<"C">>, <<"D">>, <<"f">>>>)
           id2 == Join(<<ModA, <<"g">>, <<"h">>>>)
           id3 == Dot(ModA, <<"g">>)
       IN /\ {id1, id2, id3, IdF} \subseteq DOMAIN project.symbols
          /\ project.symbols[id1].kind = "method"
          /\ project.symbols[id2].kind = "method"
          /\ project.symbols[id3].kind = "function"
          /\ project.symbols[IdF].kind = "function"

\* The first segment of the raw callee of a call on the name n with the
\* attributes attrs was `first`.
RootIs(c, first, attrs) == c.raw_callee = Join(<<first>> \o attrs)

\* C30: in each file, a call on a name that no import earlier in the walk of
\* that file binds is formatted with the name as written, whatever is
\* imported later in the file or anywhere in another file; a call on a name
\* bound earlier in the walk, at any depth of nesting and from any
\* definition, is formatted with the target of the latest such import.
C30_AliasTable ==
    \A f \in Visited :
        LET tr == Trace(files[f].body)
            at == CallPlaces(tr)
            cs == CallsIn(call_list, files[f].rel)
        IN \A m \in DOMAIN at :
              LET func == tr[at[m]].func
                  B == BindersBefore(tr, at[m], func.id)
              IN (func.root = "Name" /\ m \in DOMAIN cs) =>
                    /\ B = {} => RootIs(cs[m], func.id, func.attrs)
                    /\ B # {} =>
                          /\ RootIs(cs[m], BoundAt(tr, at[m], func.id), func.attrs)
                          /\ LET last == CHOOSE x \in B : \A y \in B : y <= x
                             IN \A i \in B \ {last} :
                                   ImportTarget(tr[i]) # ImportTarget(tr[last]) =>
                                      ~RootIs(cs[m], ImportTarget(tr[i]), func.attrs)

\* a.py holds import p.b as q, then def g(): async def h(): from c import F
\* as q, then def r() calling q(): that call is formatted c.F, by the import
\* made inside h and not by the earlier one; the call q() of p/b.py, visited
\* afterwards, is formatted q.
C30_Witness ==
    /\ pc = "resolved"
    /\ Len(files) = 3
    /\ files[2].rel = RelA
    /\ Len(files[2].body) = 3
    /\ files[2].body[1] = Import(ModB, <<"q">>)
    /\ files[2].body[2].t = "FunctionDef" /\ files[2].body[2].name = <<"g">>
    /\ files[2].body[3] = Probe
    /\ \E i, j \in DOMAIN project.calls :
          /\ project.calls[i].caller_id = Dot(ModA, <<"r">>)
          /\ project.calls[i].lineno = 1
          /\ project.calls[i].raw_callee = Dot(ModC, <<"F">>)
          /\ project.calls[j].file = RelB
          /\ project.calls[j].lineno = 2
          /\ project.calls[j].raw_callee = <<"q">>

(***************************************************************************)
(* Properties of _prune_transitive_edges, under SpecPrune.                 *)
(***************************************************************************)
\* C27: a graph that _prune_transitive_edges has pruned is left as it is by
\* another call, whatever the order of its edge dictionary.
C27_PruneIdempotent ==
    passes >= 1 =>
        \A order \in Orders(DOMAIN graph.edges) :
            PruneTransitiveEdges(graph, order) = graph

\* The graph a->b, a->c, b->c, c->b has been pruned twice: the first call
\* removed a->b and a->c, and the two edges of the cycle are still there.
C27_Witness ==
    /\ passes = 2
    /\ EdgeKeys(graph0) = {<<<<"a">>, <<"b">>>>, <<<<"a">>, <<"c">>>>,
                           <<<<"b">>, <<"c">>>>, <<<<"c">>, <<"b">>>>}
    /\ EdgeKeys(graph) = {<<<<"b">>, <<"c">>>>, <<<<"c">>, <<"b">>>>}

\* C28: after any number of calls of _prune_transitive_edges the node map is
\* the original one, every edge key is a key of the original edge map, and
\* each edge kept is the original edge: same src, dst, call_count and
\* line_numbers.
C28_PruneOnlyDeletes ==
    /\ graph.nodes = graph0.nodes
    /\ DOMAIN graph.edges \subseteq DOMAIN graph0.edges
    /\ \A k \in DOMAIN graph.edges :
          /\ graph.edges[k].src = graph0.edges[k].src
          /\ graph.edges[k].dst = graph0.edges[k].dst
          /\ graph.edges[k].call_count = graph0.edges[k].call_count
          /\ graph.edges[k].line_numbers = graph0.edges[k].line_numbers

\* A call has removed one edge of four and kept three.
C28_Witness ==
    /\ passes >= 1
    /\ Cardinality(DOMAIN graph0.edges) = 4
    /\ Cardinality(DOMAIN graph.edges) = 3
    /\ DOMAIN graph.nodes = PruneNodeIds

(***************************************************************************)
(* Properties of the graph build_call_graph returns, under Spec.           *)
(***************************************************************************)
\* C29: in the graph returned, every edge is stored under (src, dst), both
\* ends are keys of the node map, every node is stored under its id, and an
\* edge's call_count is the length of its line_numbers and at least 1.
C29_GraphWellFormed ==
    (pc = "built" /\ raised = "none") =>
        /\ \A k \in DOMAIN graph.edges :
              /\ graph.edges[k].src = k[1]
              /\ graph.edges[k].dst = k[2]
              /\ k[1] \in DOMAIN graph.nodes
              /\ k[2] \in DOMAIN graph.nodes
              /\ graph.edges[k].call_count = Len(graph.edges[k].line_numbers)
              /\ graph.edges[k].call_count >= 1
        /\ \A n \in DOMAIN graph.nodes : graph.nodes[n].id = n

\* The file graph of the project whose module p.b has no module symbol has
\* been returned: the node p.b, made while the edges were built, is stored
\* under its id and both edges have one call.
C29_Witness ==
    /\ pc = "built"
    /\ raised = "none"
    /\ project.symbols = ShadowedSymbols
    /\ config.node_granularity = "file"
    /\ ModB \notin DOMAIN InitialNodes(project.symbols, config)
    /\ DOMAIN graph.edges = {<<ModA, ModB>>, <<ModB, ModA>>}
    /\ graph.nodes[ModB].id = ModB
    /\ graph.edges[<<ModA, ModB>>].call_count = 1

====
